---- MODULE Spec2Model ----
(***************************************************************************)
(* Model of the crypto-top-dashboard pipeline:                             *)
(*   - data_fetcher.store_data_incrementally, the incremental merge of a   *)
(*     fetched batch into a raw sqlite table created by init_db;           *)
(*   - the formulas.calculate_* recomputes, which rewrite a derived table  *)
(*     with DataFrame.to_sql(if_exists='replace');                         *)
(*   - main.run_daily_tasks and the scheduler loop around it.              *)
(*                                                                         *)
(* A cell of a DataFrame or of a table is a tagged value: a Python int, a  *)
(* Python float with an integral value, a text, or NULL/None.  Conversions *)
(* (astype(str), CAST AS TEXT, column affinity, to_datetime/strftime) are  *)
(* computed on these tagged values.                                        *)
(***************************************************************************)
EXTENDS Integers, Sequences, FiniteSets, Bags, TLC

VARIABLES
    table_name,      \* the raw table the merges of this behaviour target
    pandas_strict,   \* the installed pandas infers one datetime format per column
    db,              \* committed rows of that table: a bag of stored rows
    pc,              \* per driver: position inside store_data_incrementally
    df_new_data,     \* per driver: the batch handed to the current/last call
    df_to_insert,    \* per driver: the rows selected for insertion
    txn,             \* per driver: rows written in the open, uncommitted transaction
    before,          \* per driver: db when the current/last call started
    result,          \* per driver: how the last call ended
    repeat,          \* per driver: the current/last call repeats the previous batch
    raw_n,           \* number of daily bitcoin price points stored in crypto_prices
    supply,          \* number of circulating-supply snapshots stored (the latest is used)
    derived,         \* per derived table: whether it exists, and its committed rows
    phase,           \* position of the scheduler process in its loop and run
    calc,               \* index in Calcs of the calculation the run is at
    built,           \* the DataFrame the current calculation is about to store
    pending,         \* rows written in the calculation's open transaction
    prev,            \* the derived table as it was when its calculation started
    failed,          \* the table whose calculation raised in the current/last run
    seen,            \* what the dashboard's last query of a derived table returned
    read_n,          \* len(btc_df) of the current/last calculation
    read_error,      \* a price read of the current/last run raised and gave an empty series
    not_run,         \* the calculations the current/last run has not called
    raw_changed,     \* the fetchers of the current/last run stored something new
    changed,         \* a calculation of the current/last run left its table with other rows than it found
    prev_clean,      \* the run before the current/last one was a clean run
    n_points,        \* crypto_prices: number of daily bitcoin points, the last one today's
    p_lo, p_hi,      \* crypto_prices: price level before and from day step_at
    step_at,         \* crypto_prices: the day the price level changes
    wiggle,          \* crypto_prices: size of the three-day ripple on the price
    weekday0,        \* weekday of the first stored day (0 Monday .. 6 Sunday)
    supply_info,     \* bitcoin_supply_info: circulating_supply by ascending timestamp
    calc_result,     \* the last calculation applied: its table, whether it wrote, its DataFrame
    risk_html,       \* the last get_risk_color_html call: its arguments and what it rendered
    block,           \* dashboard script: the block it runs next
    overall_risk_signals,  \* dashboard script: the counters Red, Yellow, Green, NA
    tiers,           \* dashboard script: how many risk indicators were displayed with each tier
    last_block,      \* dashboard script: what the last block read, displayed and counted
    overall,         \* dashboard script: the overall assessment and the risk score
    chart            \* dashboard script: the last history chart drawn

recomputeVars == <<raw_n, supply, derived, phase, calc, built, pending, prev, failed, seen,
                   read_n, read_error, not_run, raw_changed, changed, prev_clean>>

formulaVars == <<n_points, p_lo, p_hi, step_at, wiggle, weekday0, supply_info, calc_result, risk_html>>

dashVars == <<block, overall_risk_signals, tiers, last_block, overall, chart>>

mergeVars == <<table_name, pandas_strict, db, pc, df_new_data, df_to_insert, txn, before, result, repeat>>

\* Longest batch handed to one merge call.
MaxBatch == 2

\* The processes that call the merge: main.py's scheduler and the dashboard's refresh.
Drivers == {"scheduler", "dashboard"}

----------------------------------------------------------------------------
\* Cells

I(n) == [ty |-> "int", n |-> n, s |-> ""]
F(n) == [ty |-> "float", n |-> n, s |-> ""]
S(s) == [ty |-> "str", n |-> 0, s |-> s]
Null == [ty |-> "null", n |-> 0, s |-> ""]

Digit(d) ==
    CASE d = 0 -> "0" [] d = 1 -> "1" [] d = 2 -> "2" [] d = 3 -> "3"
      [] d = 4 -> "4" [] d = 5 -> "5" [] d = 6 -> "6" [] d = 7 -> "7"
      [] d = 8 -> "8" [] d = 9 -> "9"

RECURSIVE IntStr(_)
IntStr(n) == IF n < 10 THEN Digit(n) ELSE IntStr(n \div 10) \o Digit(n % 10)

\* pandas Series.astype(str) on one cell: str() of the Python value.
astype_str(c) ==
    CASE c.ty = "int"   -> IntStr(c.n)
      [] c.ty = "float" -> IntStr(c.n) \o ".0"
      [] c.ty = "str"   -> c.s
      [] OTHER          -> "None"

\* sqlite CAST(x AS TEXT), also the text an operand of || is converted to.
CastAsText(c) ==
    CASE c.ty = "int"   -> IntStr(c.n)
      [] c.ty = "float" -> IntStr(c.n) \o ".0"
      [] OTHER          -> c.s

\* pandas Series.astype(float) on a numeric cell.
astype_float(c) == c.n

----------------------------------------------------------------------------
\* The schema created by init_db

RawTables == {"crypto_prices", "macro_indicators", "fear_greed_index", "google_trends"}

\* The primary-key columns each fetcher passes, equal to the table's PRIMARY KEY.
pk_columns_list(t) ==
    CASE t = "crypto_prices"    -> <<"timestamp", "coin_id">>
      [] t = "macro_indicators" -> <<"date", "ticker">>
      [] t = "fear_greed_index" -> <<"timestamp">>
      [] t = "google_trends"    -> <<"date">>

\* Declared type of the first key column.
ColumnType(t) ==
    CASE t = "crypto_prices"    -> "INTEGER"
      [] t = "macro_indicators" -> "TEXT"
      [] t = "fear_greed_index" -> "INTEGER PRIMARY KEY"
      [] t = "google_trends"    -> "TEXT"

\* Whether the first key column is declared NOT NULL.
NotNull(t) == t \in {"crypto_prices", "macro_indicators"}

\* sqlite column affinity on INSERT: a float with an integral value bound to an
\* INTEGER column is stored as that integer; a text that is no number stays text.
Affinity(t, c) ==
    IF ColumnType(t) \in {"INTEGER", "INTEGER PRIMARY KEY"} /\ c.ty = "float"
    THEN I(c.n)
    ELSE IF ColumnType(t) = "TEXT" /\ c.ty \in {"int", "float"}
    THEN S(CastAsText(c))
    ELSE c

\* Largest rowid among the visible rows of an INTEGER PRIMARY KEY table (0 if none).
MaxRowid(cur) ==
    IF cur = {} THEN 0 ELSE CHOOSE m \in {e.k1.n : e \in cur} : \A e \in cur : e.k1.n <= m

\* First key cell as sqlite stores it: a NULL bound to an INTEGER PRIMARY KEY
\* column gets the next rowid; every other value goes through the affinity.
StoredKey1(t, c, cur) ==
    IF c.ty = "null" /\ ColumnType(t) = "INTEGER PRIMARY KEY"
    THEN I(MaxRowid(cur) + 1)
    ELSE Affinity(t, c)

\* The row as the INSERT of to_sql stores it, given the rows the connection sees.
StoredRow(t, r, cur) == [k1 |-> StoredKey1(t, r.k1, cur), k2 |-> r.k2, v |-> r.v]

\* The failures of an INSERT on a table declared without its PRIMARY KEY's
\* uniqueness: NOT NULL constraint and datatype mismatch only.
NoPrimaryKeyCheck(t, r, cur) ==
    LET k1 == StoredKey1(t, r.k1, cur) IN
    \/ NotNull(t) /\ (r.k1.ty = "null" \/ r.k2.ty = "null")
    \/ ColumnType(t) = "INTEGER PRIMARY KEY" /\ k1.ty # "int"

\* The INSERT of one row fails: NOT NULL constraint, datatype mismatch on an
\* INTEGER PRIMARY KEY, or UNIQUE constraint of the PRIMARY KEY (NULL keys, which
\* sqlite admits in a TEXT PRIMARY KEY, never conflict).
InsertFails(t, r, cur) ==
    LET k1 == StoredKey1(t, r.k1, cur) IN
    \/ NotNull(t) /\ (r.k1.ty = "null" \/ r.k2.ty = "null")
    \/ ColumnType(t) = "INTEGER PRIMARY KEY" /\ k1.ty # "int"
    \/ k1.ty # "null" /\ \E e \in cur : e.k1 = k1 /\ e.k2 = r.k2

----------------------------------------------------------------------------
\* Batches

\* Key cells a fetched batch may carry, per table: integer timestamps, the same
\* timestamp as a float, a text where a number is expected, dates as text with
\* and without a time part, texts containing the separator '_'.
K1Vals(t) ==
    CASE t = "crypto_prices"    -> {I(1), F(1), S("x")}
      [] t = "macro_indicators" -> {S("2024-01-01"), S("2024-01-01_SPX")}
      [] t = "fear_greed_index" -> {I(1), I(2), F(1), S("x")}
      [] t = "google_trends"    -> {S("2024-01-01"), S("2024-01-02"),
                                    S("2024-01-01 00:00:00"), S("bad")}

K2Vals(t) ==
    CASE t = "crypto_prices"    -> {S("bitcoin"), S("ethereum")}
      [] t = "macro_indicators" -> {S("Gold"), S("SPX_Gold")}
      [] OTHER                  -> {Null}

\* Values of the non-key column (price, close_price, value, bitcoin_trends).
Vals == {10, 20}

Rows(t) == [k1 : K1Vals(t), k2 : K2Vals(t), v : Vals]

\* Rows of a batch that lacks its key column(s).
KeylessRows == [k1 : {Null}, k2 : {Null}, v : Vals]

SeqUpTo(X, n) == UNION {[1..k -> X] : k \in 0..n}

\* A batch: whether its key columns are present, and its rows in order.
Batches(t) ==
    {[haskeys |-> TRUE, rows |-> s] : s \in SeqUpTo(Rows(t), MaxBatch)}
    \cup {[haskeys |-> FALSE, rows |-> s] : s \in SeqUpTo(KeylessRows, MaxBatch) \ {<<>>}}

NoBatch == [haskeys |-> TRUE, rows |-> <<>>]

----------------------------------------------------------------------------
\* store_data_incrementally: comparison keys

IsComposite(t) == Len(pk_columns_list(t)) > 1

\* Line 194, for a key column of texts: 'date' in pk_col_name.lower().
IsDateKey(t) == pk_columns_list(t)[1] = "date"

\* Composite key of a new row: the key columns astype(str), joined by '_'.
temp_composite_pk_col(r) == astype_str(r.k1) \o "_" \o astype_str(r.k2)

\* Composite key of a stored row, as the SELECT builds it: CAST("timestamp" or
\* "date" column AS TEXT) || '_' || second key column.
existing_pks_db_str(e) == CastAsText(e.k1) \o "_" \o CastAsText(e.k2)

\* Text shapes pandas.to_datetime meets in a 'date' key column.
IsDateText(s) == Len(s) = 10 /\ SubSeq(s, 5, 5) = "-" /\ SubSeq(s, 8, 8) = "-"
IsDatetimeText(s) ==
    Len(s) = 19 /\ IsDateText(SubSeq(s, 1, 10)) /\ SubSeq(s, 11, 11) = " "

\* pd.to_datetime over a column raises: on a text that is no date, and, with a
\* pandas that infers one format for the whole column (2.x), on a column mixing
\* the two date shapes; an older pandas parses each cell.  None becomes NaT.
to_datetime_raises(cells, strict) ==
    LET texts == {c.s : c \in {x \in cells : x.ty = "str"}} IN
    \/ \E s \in texts : ~IsDateText(s) /\ ~IsDatetimeText(s)
    \/ strict /\ (\E s \in texts : IsDateText(s)) /\ (\E s \in texts : IsDatetimeText(s))

\* to_datetime(...).dt.strftime('%Y-%m-%d') of one parsed cell.
strftime_ymd(c) == IF c.ty = "null" THEN "NaT" ELSE SubSeq(c.s, 1, 10)

\* is_numeric_dtype of the key column of a batch: every cell an int or a float.
is_numeric_dtype(rows) ==
    \A i \in 1..Len(rows) : rows[i].k1.ty \in {"int", "float"}

\* Lines 187-203: the rows kept for insertion, given the stored rows the SELECT
\* DISTINCT read.  (The caller has already dealt with the paths that raise.)
FilterNew(t, rows, existing) ==
    IF existing = {} THEN rows
    ELSE IF IsComposite(t) THEN
        LET keys == {existing_pks_db_str(e) : e \in existing}
            New(r) == temp_composite_pk_col(r) \notin keys
        IN SelectSeq(rows, New)
    ELSE IF IsDateKey(t) THEN
        LET keys == {strftime_ymd(e.k1) : e \in existing}
            New(r) == strftime_ymd(r.k1) \notin keys
        IN SelectSeq(rows, New)
    ELSE IF is_numeric_dtype(rows) THEN
        LET keys == {astype_float(e.k1) : e \in existing}
            New(r) == astype_float(r.k1) \notin keys
        IN SelectSeq(rows, New)
    ELSE
        LET keys == {astype_str(e.k1) : e \in existing}
            New(r) == astype_str(r.k1) \notin keys
        IN SelectSeq(rows, New)

\* Lines 159-203 raise an exception, which the except clause of line 217
\* catches: KeyError on a missing key column, or to_datetime on the key column.
FilterRaises(t, batch, existing, strict) ==
    IF IsComposite(t) THEN ~batch.haskeys
    ELSE IF existing = {} THEN FALSE
    ELSE IF ~batch.haskeys THEN TRUE
    ELSE IF IsDateKey(t) THEN
        \/ to_datetime_raises({batch.rows[i].k1 : i \in 1..Len(batch.rows)}, strict)
        \/ to_datetime_raises({e.k1 : e \in existing}, strict)
    ELSE FALSE

----------------------------------------------------------------------------
\* store_data_incrementally: the call, step by step

\* How a call ended: what it printed (log, and count for "N new rows stored"),
\* what it returned and what it raised to its caller.  The function has no return
\* value and its except clause catches every Exception.
Ended(log, count) ==
    [log |-> log, count |-> count, returned |-> [isNone |-> TRUE, n |-> 0], raised |-> "none"]

SeqToBag(q) == [x \in {q[i] : i \in 1..Len(q)} |-> Cardinality({i \in 1..Len(q) : q[i] = x})]

\* Rows the connection of driver p sees: committed rows and its own pending ones.
Visible(p) == BagToSet(db) \cup {txn[p][i] : i \in 1..Len(txn[p])}

\* Lines 150-179: the call starts.  An empty batch returns at once; a composite
\* key over a missing key column raises KeyError at line 164, which line 217
\* catches; otherwise the call goes on to read the existing keys.
Begin(p, batch, again) ==
    /\ df_new_data' = [df_new_data EXCEPT ![p] = batch]
    /\ df_to_insert' = [df_to_insert EXCEPT ![p] = <<>>]
    /\ before' = [before EXCEPT ![p] = db]
    /\ repeat' = [repeat EXCEPT ![p] = again]
    /\ IF batch.rows = <<>>
       THEN /\ result' = [result EXCEPT ![p] = Ended("empty", 0)]
            /\ pc' = [pc EXCEPT ![p] = "done"]
       ELSE IF IsComposite(table_name) /\ ~batch.haskeys
       THEN /\ result' = [result EXCEPT ![p] = Ended("error", 0)]
            /\ pc' = [pc EXCEPT ![p] = "done"]
       ELSE /\ result' = [result EXCEPT ![p] = Ended("running", 0)]
            /\ pc' = [pc EXCEPT ![p] = "read"]
    /\ UNCHANGED <<recomputeVars, formulaVars, dashVars, table_name, pandas_strict, db, txn>>

\* A fetcher calls store_data_incrementally with a fresh batch.
Call(p) ==
    /\ pc[p] = "idle"
    /\ \E batch \in Batches(table_name) : Begin(p, batch, FALSE)

\* The call has returned (line 220) and its caller calls it again with the same
\* batch, before anything else runs.
CallAgain(p) ==
    /\ pc[p] = "done"
    /\ Begin(p, df_new_data[p], TRUE)

\* The call has returned and its caller goes on; the fetcher keeps nothing of it.
Return(p) ==
    /\ pc[p] = "done"
    /\ pc' = [pc EXCEPT ![p] = "idle"]
    /\ df_new_data' = [df_new_data EXCEPT ![p] = NoBatch]
    /\ before' = [before EXCEPT ![p] = EmptyBag]
    /\ result' = [result EXCEPT ![p] = Ended("init", 0)]
    /\ repeat' = [repeat EXCEPT ![p] = FALSE]
    /\ df_to_insert' = [df_to_insert EXCEPT ![p] = <<>>]
    /\ UNCHANGED <<recomputeVars, formulaVars, dashVars, table_name, pandas_strict, db, txn>>

\* Lines 181-215 up to the insert: read the existing keys, keep the new rows.
ReadAndFilter(p) ==
    /\ pc[p] = "read"
    /\ LET existing == BagToSet(db) IN
          IF FilterRaises(table_name, df_new_data[p], existing, pandas_strict)
          THEN /\ result' = [result EXCEPT ![p] = Ended("error", 0)]
               /\ pc' = [pc EXCEPT ![p] = "done"]
               /\ UNCHANGED df_to_insert
          ELSE LET keep == FilterNew(table_name, df_new_data[p].rows, existing) IN
               IF keep = <<>>
               THEN /\ result' = [result EXCEPT ![p] = Ended("no_new", 0)]
                    /\ pc' = [pc EXCEPT ![p] = "done"]
                    /\ UNCHANGED df_to_insert
               ELSE /\ df_to_insert' = [df_to_insert EXCEPT ![p] = keep]
                    /\ pc' = [pc EXCEPT ![p] = "insert"]
                    /\ UNCHANGED result
    /\ UNCHANGED <<recomputeVars, formulaVars, dashVars, table_name, pandas_strict, db, df_new_data, txn, before, repeat>>

\* The next row of the executemany on a connection that commits every INSERT
\* on its own.
InsertRowAutocommit(p) ==
    /\ pc[p] = "insert"
    /\ Len(txn[p]) < Len(df_to_insert[p])
    /\ LET r == df_to_insert[p][Len(txn[p]) + 1] IN
       IF InsertFails(table_name, r, Visible(p))
       THEN /\ txn' = [txn EXCEPT ![p] = <<>>]
            /\ result' = [result EXCEPT ![p] = Ended("error", 0)]
            /\ pc' = [pc EXCEPT ![p] = "done"]
            /\ db' = db
       ELSE /\ txn' = [txn EXCEPT ![p] = Append(@, StoredRow(table_name, r, Visible(p)))]
            /\ db' = db (+) SetToBag({StoredRow(table_name, r, Visible(p))})
            /\ UNCHANGED <<result, pc>>
    /\ UNCHANGED <<recomputeVars, formulaVars, dashVars, table_name, pandas_strict, df_new_data, df_to_insert, before, repeat>>

\* Line 212, to_sql(if_exists='append'): the next row of the executemany, inside
\* the transaction the first INSERT opened.  A failing INSERT rolls the
\* transaction back and raises; line 217 catches it.
InsertRow(p) ==
    /\ pc[p] = "insert"
    /\ Len(txn[p]) < Len(df_to_insert[p])
    /\ LET r == df_to_insert[p][Len(txn[p]) + 1] IN
       IF InsertFails(table_name, r, Visible(p))
       THEN /\ txn' = [txn EXCEPT ![p] = <<>>]
            /\ result' = [result EXCEPT ![p] = Ended("error", 0)]
            /\ pc' = [pc EXCEPT ![p] = "done"]
       ELSE /\ txn' = [txn EXCEPT ![p] = Append(@, StoredRow(table_name, r, Visible(p)))]
            /\ UNCHANGED <<result, pc>>
    /\ UNCHANGED <<recomputeVars, formulaVars, dashVars, table_name, pandas_strict, db, df_new_data, df_to_insert, before, repeat>>

\* if_exists='replace' in place of 'append': the table is rebuilt from the batch.
CommitReplace(p) ==
    /\ pc[p] = "insert"
    /\ Len(txn[p]) = Len(df_to_insert[p])
    /\ db' = SeqToBag(txn[p])
    /\ result' = [result EXCEPT ![p] = Ended("stored", Len(df_to_insert[p]))]
    /\ txn' = [txn EXCEPT ![p] = <<>>]
    /\ pc' = [pc EXCEPT ![p] = "done"]
    /\ UNCHANGED <<recomputeVars, formulaVars, dashVars, table_name, pandas_strict, df_new_data, df_to_insert, before, repeat>>

\* End of to_sql: every row written, the transaction commits; line 213 prints
\* the number of rows stored.
Commit(p) ==
    /\ pc[p] = "insert"
    /\ Len(txn[p]) = Len(df_to_insert[p])
    /\ db' = db (+) SeqToBag(txn[p])
    /\ result' = [result EXCEPT ![p] = Ended("stored", Len(df_to_insert[p]))]
    /\ txn' = [txn EXCEPT ![p] = <<>>]
    /\ pc' = [pc EXCEPT ![p] = "done"]
    /\ UNCHANGED <<recomputeVars, formulaVars, dashVars, table_name, pandas_strict, df_new_data, df_to_insert, before, repeat>>

----------------------------------------------------------------------------
\* The derived tables and the daily run that rebuilds them
\* (src/formulas.py, src/main.py)

\* The calculations in the order run_daily_tasks calls them, named by the table
\* each one writes.
Calcs == <<"pi_cycle_data", "wma_200_data", "s2f_data", "puell_multiple_calculated">>

DerivedTables == {Calcs[i] : i \in 1..Len(Calcs)}

\* fetch_crypto_prices asks for this many days when the table holds no price.
initial_days_fetch == 360

\* Days fetched, one a day, after the initial fetch.
MaxNewDays == 5

\* Supply snapshots stored, at most one a day.
MaxSnapshots == 2

\* Rows of a derived table: one per day (per week for wma_200_data) from lo to
\* hi; a row's values are determined by the price series up to its day and, in
\* s2f_data, by the supply snapshot the calculation read.
NoRows == [lo |-> 1, hi |-> 0, supply |-> 0]

\* days_history of the calculation's call of get_btc_price_data_from_db.
days_history(T) ==
    IF T = "wma_200_data" THEN 1500
    ELSE IF T = "s2f_data" THEN 365 * 5
    ELSE 400

\* len(btc_df): the daily points of the last days_history days, out of n stored.
get_btc_price_data_from_db(n, days) == IF n > days THEN days ELSE n

\* Fewest points the calculation accepts.
min_points(T) ==
    IF T = "pi_cycle_data" THEN 350
    ELSE IF T = "wma_200_data" THEN 1400
    ELSE IF T = "puell_multiple_calculated" THEN 365
    ELSE 1

\* Weekly points of resample('W-SUN') over len daily points.
resample_weeks(len) == (len + 6) \div 7

\* A calculation that accepts any input.
NoMinimum(T, n, have_supply) == FALSE

\* The calculation returns without writing.
NotEnough(T, n, have_supply) ==
    LET len == get_btc_price_data_from_db(n, days_history(T)) IN
    \/ len < min_points(T)
    \/ T = "wma_200_data" /\ resample_weeks(len) < 200
    \/ T = "s2f_data" /\ ~have_supply

\* A DataFrame that continues the rows the table holds.
RebuiltOnTop(T, n, snapshot) ==
    [lo |-> 1, hi |-> IF derived[T].rows.hi = 0 THEN n ELSE derived[T].rows.hi + 1, supply |-> 0]

\* The DataFrame the calculation stores: the rows left by dropna after the
\* rolling means (every row for s2f_data).
Rebuilt(T, n, snapshot) ==
    LET len == get_btc_price_data_from_db(n, days_history(T))
        first == n - len + 1
    IN  IF T = "wma_200_data"
        THEN [lo |-> 200, hi |-> resample_weeks(len), supply |-> 0]
        ELSE [lo |-> first + min_points(T) - 1, hi |-> n,
              supply |-> IF T = "s2f_data" THEN snapshot ELSE 0]

\* The table the run is calculating.
Current == Calcs[calc]

\* The calculation returns; run_daily_tasks calls the next one, or finishes.
NextCalc ==
    /\ phase' = IF calc = Len(Calcs) THEN "wait" ELSE "calc"
    /\ calc' = IF calc = Len(Calcs) THEN 1 ELSE calc + 1

\* The run is inside to_sql(if_exists='replace') of table T.
Replacing(T) == phase \in {"drop", "create", "insert", "commit"} /\ Current = T

\* The current/last run ended with every calculation called, none raising and
\* no read error.
CleanRun ==
    /\ failed = "none"
    /\ ~read_error
    /\ not_run = {}

\* main.py 48 and 57-59: the loop finds the job due and calls run_daily_tasks.
RunPending ==
    /\ phase = "wait"
    /\ phase' = "fetch"
    /\ failed' = "none"
    /\ read_error' = FALSE
    /\ not_run' = DerivedTables
    /\ raw_changed' = FALSE
    /\ changed' = FALSE
    /\ prev_clean' = CleanRun
    /\ UNCHANGED <<mergeVars, formulaVars, dashVars, raw_n, supply, derived, calc, built, pending, prev, seen, read_n>>

\* main.py 16-21: the fetchers.  Each catches its own errors; the price fetch
\* brings the initial history, then at most one new day; the supply fetch stores
\* a snapshot when the API answers on a day that has none yet.
FetchData ==
    /\ phase = "fetch"
    /\ \E k \in 0..1 :
          raw_n' = IF raw_n = 0 THEN k * initial_days_fetch
                   ELSE IF raw_n < initial_days_fetch + MaxNewDays THEN raw_n + k
                   ELSE raw_n
    /\ \E snap \in 0..1 :
          supply' = IF supply < MaxSnapshots THEN supply + snap ELSE supply
    /\ raw_changed' = (raw_n' # raw_n \/ supply' # supply)
    /\ phase' = "calc"
    /\ calc' = 1
    /\ UNCHANGED <<mergeVars, formulaVars, dashVars, derived, built, pending, prev, failed, seen,
                   read_n, read_error, not_run, changed, prev_clean>>

\* A calculate_* function up to its to_sql call: read the prices (a read that
\* raises gives an empty series, formulas.py 19-23), return if there are too
\* few, else build the DataFrame.
Calculate ==
    /\ phase = "calc"
    /\ \E ok \in BOOLEAN :
          LET n == IF ok THEN raw_n ELSE 0 IN
          /\ read_n' = get_btc_price_data_from_db(n, days_history(Current))
          /\ read_error' = (read_error \/ ~ok)
          /\ IF NotEnough(Current, n, supply > 0)
             THEN /\ NextCalc
                  /\ UNCHANGED <<built, prev>>
             ELSE /\ built' = Rebuilt(Current, n, supply)
                  /\ prev' = derived[Current]
                  /\ phase' = "drop"
                  /\ UNCHANGED calc
    /\ not_run' = not_run \ {Current}
    /\ UNCHANGED <<mergeVars, formulaVars, dashVars, raw_n, supply, derived, pending, failed, seen,
                   raw_changed, changed, prev_clean>>

\* to_sql(if_exists='replace'): the table exists, so pandas drops it.  The DROP
\* is committed at once.
DropTable ==
    /\ phase = "drop"
    /\ derived' = IF derived[Current].exists
                  THEN [derived EXCEPT ![Current] = [exists |-> FALSE, rows |-> NoRows]]
                  ELSE derived
    /\ phase' = "create"
    /\ UNCHANGED <<mergeVars, formulaVars, dashVars, raw_n, supply, calc, built, pending, prev, failed, seen,
                   read_n, read_error, not_run, raw_changed, changed, prev_clean>>

\* to_sql: CREATE TABLE from the DataFrame's columns, committed at once.
CreateTable ==
    /\ phase = "create"
    /\ derived' = [derived EXCEPT ![Current] = [exists |-> TRUE, rows |-> NoRows]]
    /\ phase' = "insert"
    /\ UNCHANGED <<mergeVars, formulaVars, dashVars, raw_n, supply, calc, built, pending, prev, failed, seen,
                   read_n, read_error, not_run, raw_changed, changed, prev_clean>>

\* to_sql: the executemany of the INSERTs, in one transaction.
InsertRows ==
    /\ phase = "insert"
    /\ pending' = built
    /\ phase' = "commit"
    /\ UNCHANGED <<mergeVars, formulaVars, dashVars, raw_n, supply, derived, calc, built, prev, failed, seen,
                   read_n, read_error, not_run, raw_changed, changed, prev_clean>>

\* The commit of a table filled by merging the new rows into the stored ones,
\* as store_data_incrementally would: stored rows stay as they are.
CommitMerged ==
    /\ phase = "commit"
    /\ derived' = [derived EXCEPT ![Current].rows =
                      IF prev.rows = NoRows THEN pending
                      ELSE [lo |-> IF prev.rows.lo < pending.lo THEN prev.rows.lo ELSE pending.lo,
                            hi |-> IF prev.rows.hi > pending.hi THEN prev.rows.hi ELSE pending.hi,
                            supply |-> prev.rows.supply]]
    /\ changed' = (changed \/ derived'[Current] # prev)
    /\ pending' = NoRows
    /\ NextCalc
    /\ UNCHANGED <<mergeVars, formulaVars, dashVars, raw_n, supply, built, prev, failed, seen,
                   read_n, read_error, not_run, raw_changed, prev_clean>>

\* to_sql: the transaction commits; the calculation closes and returns.
CommitRows ==
    /\ phase = "commit"
    /\ derived' = [derived EXCEPT ![Current].rows = pending]
    /\ changed' = (changed \/ derived'[Current] # prev)
    /\ pending' = NoRows
    /\ NextCalc
    /\ UNCHANGED <<mergeVars, formulaVars, dashVars, raw_n, supply, built, prev, failed, seen,
                   read_n, read_error, not_run, raw_changed, prev_clean>>

\* sqlite raises while the rows are written (database locked, disk full, a
\* value it cannot bind): the transaction is rolled back, the exception leaves
\* the calculation, and run_daily_tasks catches it at line 33 and returns.
WriteError ==
    /\ phase \in {"insert", "commit"}
    /\ pending' = NoRows
    /\ failed' = Current
    /\ changed' = (changed \/ derived[Current] # prev)
    /\ phase' = "wait"
    /\ calc' = 1
    /\ UNCHANGED <<mergeVars, formulaVars, dashVars, raw_n, supply, derived, built, prev, seen,
                   read_n, read_error, not_run, raw_changed, prev_clean>>

\* dashboard.py: a page render queries a derived table through
\* fetch_from_db_dash, whatever the scheduler process is doing.  The query finds
\* the table complete when no replace of it is under way; during a replace it
\* finds the previous rows, the new rows, a table without rows, or no table (the
\* error is caught at dashboard.py 29 and an empty frame returned).
DashboardRead(T) ==
    /\ seen' = IF ~Replacing(T) THEN "complete"
               ELSE IF ~derived[T].exists THEN "missing"
               ELSE IF derived[T].rows = prev.rows THEN "previous"
               ELSE IF derived[T].rows = built THEN "new"
               ELSE "empty"
    /\ UNCHANGED <<mergeVars, formulaVars, dashVars, raw_n, supply, derived, phase, calc, built, pending, prev, failed,
                   read_n, read_error, not_run, raw_changed, changed, prev_clean>>

\* After init_db: the derived tables exist and are empty, the scheduler has not
\* run yet.
InitDerived ==
    /\ raw_n = 0
    /\ supply = 0
    /\ derived = [T \in DerivedTables |-> [exists |-> TRUE, rows |-> NoRows]]
    /\ phase = "wait"
    /\ calc = 1
    /\ built = NoRows
    /\ pending = NoRows
    /\ prev = [exists |-> TRUE, rows |-> NoRows]
    /\ failed = "none"
    /\ seen = "nothing"
    /\ read_n = 0
    /\ read_error = FALSE
    /\ not_run = DerivedTables
    /\ raw_changed = FALSE
    /\ changed = FALSE
    /\ prev_clean = FALSE

\* No merge is running.
InitMerge ==
    /\ db = EmptyBag
    /\ pc = [p \in Drivers |-> "idle"]
    /\ df_new_data = [p \in Drivers |-> NoBatch]
    /\ df_to_insert = [p \in Drivers |-> <<>>]
    /\ txn = [p \in Drivers |-> <<>>]
    /\ before = [p \in Drivers |-> EmptyBag]
    /\ result = [p \in Drivers |-> Ended("init", 0)]
    /\ repeat = [p \in Drivers |-> FALSE]

----------------------------------------------------------------------------
\* The calculations of formulas.py on a stored price series

\* Highest price level of a stored series.
MaxPrice == 5

Prices == {0, 1, MaxPrice}

\* Price of stored day d: a level that changes once, with a three-day ripple.
Price(d) == (IF d < step_at THEN p_lo ELSE p_hi) + wiggle * (d % 3)

\* btc_df of get_btc_price_data_from_db(days_history=days): the daily closes of
\* the last days days, oldest first; the index is the day.
btc_df(days) ==
    LET len == get_btc_price_data_from_db(n_points, days)
        first == n_points - len + 1
    IN  [i \in 1..len |-> [timestamp |-> first + i - 1, close |-> Price(first + i - 1)]]

\* The 'close' column of a frame.
closes(df) == SubSeq([i \in 1..Len(df) |-> df[i].close], 1, Len(df))

\* Floats are kept as exact fractions; NaN and inf are the two without a value.
NaN == [num |-> 0, den |-> 0]
Inf == [num |-> 1, den |-> 0]
isna(a) == a = NaN

\* The running sums x[lo], x[lo] + x[lo+1], ... of a column: rolling() adds
\* each value as it enters.
RECURSIVE running_sums(_, _, _)
running_sums(x, lo, hi) ==
    IF lo > hi THEN <<>>
    ELSE IF lo = hi THEN <<x[lo]>>
    ELSE LET mid == (lo + hi) \div 2
             left == running_sums(x, lo, mid)
             right == running_sums(x, mid + 1, hi)
         IN  left \o [i \in 1..Len(right) |-> left[Len(left)] + right[i]]

cumsum(x) == running_sums(x, 1, Len(x))

\* A rolling mean that also averages the leading partial windows.
PartialWindows(c, i, window) ==
    IF i < window THEN [num |-> c[i], den |-> i]
    ELSE [num |-> c[i] - (IF i = window THEN 0 ELSE c[i - window]), den |-> window]

\* x.rolling(window=window, min_periods=window).mean() at position i, from the
\* running sums c of x: the sum of the window is what entered less what left.
rolling_mean(c, i, window) ==
    IF i < window THEN NaN
    ELSE [num |-> c[i] - (IF i = window THEN 0 ELSE c[i - window]), den |-> window]

\* k * a, and a >= b (False when either is NaN), for fractions.
Times(k, a) == IF a.den = 0 THEN a ELSE [num |-> k * a.num, den |-> a.den]
Geq(a, b) == a.den # 0 /\ b.den # 0 /\ a.num * b.den >= b.num * a.den

\* A division that yields 0 where the divisor is zero.
ZeroWhenDividedByZero(k, a) ==
    IF isna(a) THEN NaN
    ELSE IF a.num = 0 THEN [num |-> 0, den |-> 1]
    ELSE [num |-> k * a.den, den |-> a.num]

\* The integer k divided by the fraction a, as numpy divides floats.
DivideBy(k, a) ==
    IF isna(a) THEN NaN
    ELSE IF a.num = 0 THEN (IF k = 0 THEN NaN ELSE Inf)
    ELSE [num |-> k * a.den, den |-> a.num]

\* What a calculation leaves: the table it is for, whether it called to_sql,
\* and the DataFrame it stored.
NotWritten(T) == [table |-> T, wrote |-> FALSE, rows |-> <<>>]
Written(T, rows) == [table |-> T, wrote |-> TRUE, rows |-> rows]

\* formulas.py 42-66: pi_df after dropna.
pi_df(df) ==
    LET c == cumsum(closes(df))
        row(i) ==
            LET a == rolling_mean(c, i, 111)
                b == Times(2, rolling_mean(c, i, 350))
            IN  [timestamp |-> df[i].timestamp, btc_price |-> df[i].close,
                 sma_111 |-> a, sma_350_doubled |-> b,
                 signal |-> IF Geq(a, b) THEN "High Risk (111DMA >= 350DMA*2 - CROSSED)"
                            ELSE "Neutral"]
        all == [i \in 1..Len(df) |-> row(i)]
        valid(r) == ~isna(r.sma_111) /\ ~isna(r.sma_350_doubled)
    IN  SelectSeq(all, valid)

\* formulas.py 34-71.
calculate_pi_cycle_top ==
    /\ LET df == btc_df(400) IN
       calc_result' =
           IF Len(df) < 350 THEN NotWritten("pi_cycle_data")
           ELSE LET rows == pi_df(df) IN
                IF rows = <<>> THEN NotWritten("pi_cycle_data")
                ELSE Written("pi_cycle_data", rows)
    /\ UNCHANGED <<mergeVars, recomputeVars, dashVars, n_points, p_lo, p_hi, step_at, wiggle,
                   weekday0, supply_info, risk_html>>

\* daily_issuance_btc: current_block_reward_btc (3.125) * blocks_per_day_approx (144).
daily_issuance_btc == 450

\* formulas.py 209-222: puell_df after dropna.
puell_df(df) ==
    LET usd == SubSeq([i \in 1..Len(df) |-> daily_issuance_btc * df[i].close], 1, Len(df))
        c == cumsum(usd)
        row(i) ==
            LET ma == rolling_mean(c, i, 365) IN
            [timestamp |-> df[i].timestamp, btc_price |-> df[i].close,
             daily_issuance_usd |-> usd[i], daily_issuance_usd_365d_ma |-> ma,
             puell_multiple |-> DivideBy(usd[i], ma)]
        all == [i \in 1..Len(df) |-> row(i)]
        valid(r) == ~isna(r.puell_multiple)
    IN  SelectSeq(all, valid)

\* formulas.py 194-227.
calculate_puell_multiple_alternative ==
    /\ LET df == btc_df(400) IN
       calc_result' =
           IF Len(df) < 365 THEN NotWritten("puell_multiple_calculated")
           ELSE LET rows == puell_df(df) IN
                IF rows = <<>> THEN NotWritten("puell_multiple_calculated")
                ELSE Written("puell_multiple_calculated", rows)
    /\ UNCHANGED <<mergeVars, recomputeVars, dashVars, n_points, p_lo, p_hi, step_at, wiggle,
                   weekday0, supply_info, risk_html>>

\* The Sunday-ending week a stored day falls in, and that week's Sunday.
week_of(d) == (weekday0 + d - 1) \div 7
sunday_of(w) == 7 * w + 7 - weekday0

\* A resampling into windows of seven days counted from the first stored
\* day, each labelled by its seventh day.
resample_7D_last(df) ==
    IF df = <<>> THEN <<>>
    ELSE LET first == df[1].timestamp
             last == df[Len(df)].timestamp
             day(j) == IF first + 7 * j - 1 < last THEN first + 7 * j - 1 ELSE last
         IN  [j \in 1..((Len(df) + 6) \div 7) |->
                 [timestamp |-> first + 7 * j - 1, close |-> df[day(j) - first + 1].close]]

\* btc_daily_df.resample('W-SUN').last(): one point per week from the first
\* day's week to the last day's, labelled by the week's Sunday, holding the
\* close of the last day of the week in the frame.
resample_W_SUN_last(df) ==
    IF df = <<>> THEN <<>>
    ELSE LET first == df[1].timestamp
             last == df[Len(df)].timestamp
             w0 == week_of(first)
             day(j) == IF sunday_of(w0 + j - 1) < last THEN sunday_of(w0 + j - 1) ELSE last
         IN  [j \in 1..(week_of(last) - w0 + 1) |->
                 [timestamp |-> sunday_of(w0 + j - 1), close |-> df[day(j) - first + 1].close]]

\* formulas.py 87-99: wma_df after dropna.
wma_df(weekly) ==
    LET c == cumsum(closes(weekly))
        all == [j \in 1..Len(weekly) |->
                   [timestamp |-> weekly[j].timestamp, btc_price |-> weekly[j].close,
                    wma_200 |-> rolling_mean(c, j, 200)]]
        valid(r) == ~isna(r.wma_200)
    IN  SelectSeq(all, valid)

\* formulas.py 74-105.
calculate_200wma ==
    /\ LET btc_daily_df == btc_df(1500) IN
       calc_result' =
           IF Len(btc_daily_df) < 1400 THEN NotWritten("wma_200_data")
           ELSE LET btc_weekly_df == resample_W_SUN_last(btc_daily_df) IN
                IF Len(btc_weekly_df) < 200 THEN NotWritten("wma_200_data")
                ELSE LET rows == wma_df(btc_weekly_df) IN
                     IF rows = <<>> THEN NotWritten("wma_200_data")
                     ELSE Written("wma_200_data", rows)
    /\ UNCHANGED <<mergeVars, recomputeVars, dashVars, n_points, p_lo, p_hi, step_at, wiggle,
                   weekday0, supply_info, risk_html>>

\* Rows of bitcoin_supply_info: circulating_supply is a number or NULL.
NoSupply == [null |-> TRUE, v |-> 0]
Supply(v) == [null |-> FALSE, v |-> v]

\* The oldest snapshot instead of the latest.
oldest_supply(info) == info[1]

\* formulas.py 118: SELECT circulating_supply FROM bitcoin_supply_info ORDER BY
\* timestamp DESC LIMIT 1 (the table is kept in timestamp order).
latest_supply(info) == info[Len(info)]

\* s2f_ratio: supply / annual_flow_btc, with annual_flow_btc = 3.125 * 144 *
\* 365.25 = 164362.5 = 328725 / 2.
s2f_ratio(supply_v) == [num |-> 2 * supply_v, den |-> 328725]

\* s2f_model_price_value (formulas.py 173-176): a closed formula of the
\* snapshot, kept as the formula and its argument, or 0.
s2f_model_price_value(supply_v) ==
    IF supply_v > 0
    THEN [formula |-> "exp(14.607) * s2f_ratio ** 3.3168 / supply", supply |-> supply_v]
    ELSE [formula |-> "0", supply |-> supply_v]

\* formulas.py 107-192.
calculate_s2f_model ==
    /\ LET df == btc_df(365 * 5) IN
       calc_result' =
           IF df = <<>> THEN NotWritten("s2f_data")
           ELSE IF supply_info = <<>> THEN NotWritten("s2f_data")
           ELSE LET current_circulating_supply == latest_supply(supply_info) IN
                IF current_circulating_supply.null THEN NotWritten("s2f_data")
                ELSE Written("s2f_data",
                        [i \in 1..Len(df) |->
                            [timestamp |-> df[i].timestamp, btc_price |-> df[i].close,
                             s2f_ratio |-> s2f_ratio(current_circulating_supply.v),
                             s2f_price_model |-> s2f_model_price_value(current_circulating_supply.v)]])
    /\ UNCHANGED <<mergeVars, recomputeVars, dashVars, n_points, p_lo, p_hi, step_at, wiggle,
                   weekday0, supply_info, risk_html>>

\* Largest configured threshold of an indicator.
MaxThreshold == 3

\* A value handed to the classifier: None or NaN (when the latest row has
\* none), a number, a text float() rejects, or an object that is not a scalar
\* (a list, a dict); and a threshold of thresholds_config.py (None when not
\* configured).
NA == [kind |-> "missing", na |-> TRUE, v |-> 0]
Number(v) == [kind |-> "number", na |-> FALSE, v |-> v]
Text == [kind |-> "text", na |-> FALSE, v |-> 0]
Object == [kind |-> "object", na |-> FALSE, v |-> 0]
NoThreshold == [none |-> TRUE, v |-> 0]
Threshold(v) == [none |-> FALSE, v |-> v]

\* dashboard.py 59-60: float(threshold), or the infinity standing for None
\* (inf |-> 1 is float('inf'), inf |-> -1 is float('-inf')).
threshold_float(t, low_is_good) ==
    IF t.none THEN [inf |-> IF low_is_good THEN 1 ELSE -1, v |-> 0]
    ELSE [inf |-> 0, v |-> t.v]

\* value_float >= t and value_float <= t.
FloatGeq(v, t) == IF t.inf = 1 THEN FALSE ELSE IF t.inf = -1 THEN TRUE ELSE v >= t.v
FloatLeq(v, t) == IF t.inf = 1 THEN TRUE ELSE IF t.inf = -1 THEN FALSE ELSE v <= t.v

\* The span returned, or the exception that leaves the function.
Html(color, risk_level) == [color |-> color, risk_level |-> risk_level, raised |-> "none"]
Raised(exception) == [color |-> "none", risk_level |-> "none", raised |-> exception]

\* A classifier whose boundaries are exclusive.
ExclusiveBoundary(value, high_threshold, medium_threshold, low_is_good) ==
    IF value.na THEN Html("grey", "Data N/A")
    ELSE LET high == threshold_float(high_threshold, low_is_good)
             medium == threshold_float(medium_threshold, low_is_good)
         IN  IF low_is_good
             THEN IF FloatGeq(value.v, high) /\ ~FloatLeq(value.v, high) THEN Html("red", "High")
                  ELSE IF FloatGeq(value.v, medium) /\ ~FloatLeq(value.v, medium)
                       THEN Html("orange", "Medium")
                  ELSE Html("green", "Low")
             ELSE IF FloatLeq(value.v, high) /\ ~FloatGeq(value.v, high) THEN Html("red", "High (Risk)")
                  ELSE IF FloatLeq(value.v, medium) /\ ~FloatGeq(value.v, medium)
                       THEN Html("orange", "Medium (Risk)")
                  ELSE Html("green", "Low")

\* dashboard.py 51-76: the colour and the tier of the span it returns.  For an
\* object that is not a scalar, pd.isna gives an array whose truth value is
\* ambiguous (line 54, outside the try) or float() raises TypeError (line 57,
\* where only ValueError is caught): the exception leaves the function.
get_risk_color_html(value, high_threshold, medium_threshold, low_is_good) ==
    IF value.na THEN Html("grey", "Data N/A")
    ELSE IF value.kind = "object" THEN Raised("TypeError")
    ELSE IF value.kind = "text" THEN Html("grey", "Invalid Value")
    ELSE LET high == threshold_float(high_threshold, low_is_good)
             medium == threshold_float(medium_threshold, low_is_good)
         IN  IF low_is_good
             THEN IF FloatGeq(value.v, high) THEN Html("red", "High")
                  ELSE IF FloatGeq(value.v, medium) THEN Html("orange", "Medium")
                  ELSE Html("green", "Low")
             ELSE IF FloatLeq(value.v, high) THEN Html("red", "High (Risk)")
                  ELSE IF FloatLeq(value.v, medium) THEN Html("orange", "Medium (Risk)")
                  ELSE Html("green", "Low")

Values == {NA, Text, Object} \cup {Number(v) : v \in -1..(MaxThreshold + 1)}
Thresholds == {NoThreshold} \cup {Threshold(v) : v \in 0..MaxThreshold}

NotRendered == [rendered |-> FALSE]

\* An indicator block of the dashboard classifies its latest value.
RenderIndicator ==
    /\ \E value \in Values, high_threshold \in Thresholds, medium_threshold \in Thresholds,
          low_is_good \in BOOLEAN :
          risk_html' = [rendered |-> TRUE, value |-> value,
                        high_threshold |-> high_threshold,
                        medium_threshold |-> medium_threshold,
                        low_is_good |-> low_is_good,
                        html |-> get_risk_color_html(value, high_threshold,
                                                     medium_threshold, low_is_good)]
    /\ UNCHANGED <<mergeVars, recomputeVars, dashVars, n_points, p_lo, p_hi, step_at, wiggle,
                   weekday0, supply_info, calc_result>>

----------------------------------------------------------------------------
\* The dashboard script: its indicator blocks and the overall assessment

\* thresholds_config.py.  Ratios are in tenths (3.0 is 30), as are the values
\* compared with them; PI_CYCLE_APPROACH_FACTOR is in hundredths.
FG_EXTREME_GREED == 80
FG_GREED == 65
PI_CYCLE_APPROACH_FACTOR == 95
WMA200_PRICE_RATIO_HIGH == 30
WMA200_PRICE_RATIO_MEDIUM == 20
GTRENDS_HIGH_RISK == 85
GTRENDS_MEDIUM_RISK == 65
DOMINANCE_FROTH_HIGH == 400
DOMINANCE_FROTH_MEDIUM == 480
S2F_PRICE_DEVIATION_HIGH == 25
S2F_PRICE_DEVIATION_MEDIUM == 17
PUELL_HIGH_RISK == 30
PUELL_MEDIUM_RISK == 18
OVERALL_HIGH_RISK_COUNT_RED == 3
OVERALL_MEDIUM_RISK_COUNT_RED == 2
OVERALL_MEDIUM_RISK_SUM_YELLOW_RED == 4

\* What a query of the dashboard finds: no such table, a database that cannot
\* be read (locked, malformed), a table without rows, or the latest row.
Missing == [state |-> "missing", row |-> <<>>]
Unreadable == [state |-> "unreadable", row |-> <<>>]
Empty == [state |-> "empty", row |-> <<>>]
Latest(row) == [state |-> "rows", row |-> row]
NoData == {Missing, Unreadable, Empty}

\* A fetch that lets the error of read_sql_query out.
fetch_without_except(t) ==
    IF t.state \in {"missing", "unreadable"} THEN [raised |-> TRUE, empty |-> TRUE, row |-> <<>>]
    ELSE [raised |-> FALSE, empty |-> t.state = "empty", row |-> t.row]

\* dashboard.py 25-48: the error of read_sql_query is caught and an empty
\* DataFrame returned.
fetch_from_db_dash(t) ==
    IF t.state \in {"missing", "unreadable"} THEN [raised |-> FALSE, empty |-> TRUE, row |-> <<>>]
    ELSE [raised |-> FALSE, empty |-> t.state = "empty", row |-> t.row]

\* overall_risk_signals[key] += 1
Add(signals, key) == [signals EXCEPT ![key] = @ + 1]

\* What a block did: the counters after it and the colour it displayed (grey
\* also when it only wrote that the data is not available).
Did(signals, color) == [signals |-> signals, color |-> color]

\* dashboard.py 172-195.
fear_greed_block(signals, fg_df) ==
    IF fg_df.empty THEN Did(Add(signals, "NA"), "grey")
    ELSE LET fg_value == fg_df.row.value IN
         IF fg_value.na THEN Did(Add(signals, "NA"), "grey")
         ELSE LET green == Add(signals, "Green") IN
              IF fg_value.v >= FG_EXTREME_GREED THEN Did(Add(green, "Red"), "red")
              ELSE IF fg_value.v >= FG_GREED THEN Did(Add(green, "Yellow"), "orange")
              ELSE Did(green, "green")

\* dashboard.py 200-217.
google_trends_block(signals, gt_df) ==
    IF gt_df.empty THEN Did(Add(signals, "NA"), "grey")
    ELSE LET latest_gt_val == gt_df.row.bitcoin_trends IN
         IF latest_gt_val.na THEN Did(Add(signals, "NA"), "grey")
         ELSE LET green == Add(signals, "Green") IN
              IF latest_gt_val.v >= GTRENDS_HIGH_RISK THEN Did(Add(green, "Red"), "red")
              ELSE IF latest_gt_val.v >= GTRENDS_MEDIUM_RISK THEN Did(Add(green, "Yellow"), "orange")
              ELSE Did(green, "green")

\* dashboard.py 225-258.
pi_cycle_block(signals, pi_df_dash) ==
    IF pi_df_dash.empty THEN Did(Add(signals, "NA"), "grey")
    ELSE LET current_sma_111 == pi_df_dash.row.sma_111
             current_sma_350_doubled == pi_df_dash.row.sma_350_doubled
         IN  IF current_sma_111.na \/ current_sma_350_doubled.na
             THEN Did(Add(signals, "NA"), "grey")
             ELSE LET green == Add(signals, "Green") IN
                  IF current_sma_111.v >= current_sma_350_doubled.v
                  THEN Did(Add(green, "Red"), "red")
                  ELSE IF 100 * current_sma_111.v >= PI_CYCLE_APPROACH_FACTOR * current_sma_350_doubled.v
                       THEN Did(Add(green, "Yellow"), "orange")
                  ELSE Did(green, "green")

\* price / model in tenths (rounded down, which no comparison with a
\* threshold in tenths can tell from the exact quotient), or None.
ratio_or_none(price, model) ==
    IF ~model.na /\ model.v # 0 /\ model.v > 0 /\ ~price.na
    THEN Number((10 * price.v) \div model.v)
    ELSE NA

\* The counters of a block that classifies value with get_risk_color_html and
\* counts it in a chain of its own (dashboard.py 277-282, 310-315, 346-350,
\* 375-379).
classified_block(signals, value, high, medium, low_is_good) ==
    LET risk == get_risk_color_html(value, Threshold(high), Threshold(medium), low_is_good)
        counted ==
            IF value.na THEN "NA"
            ELSE IF low_is_good
                 THEN (IF value.v >= high THEN "Red"
                       ELSE IF value.v >= medium THEN "Yellow" ELSE "Green")
                 ELSE (IF value.v <= high THEN "Red"
                       ELSE IF value.v <= medium THEN "Yellow" ELSE "Green")
    IN  Did(Add(signals, counted), risk.color)

\* dashboard.py 263-298.
wma_200_block(signals, wma_df_dash) ==
    IF wma_df_dash.empty THEN Did(Add(signals, "NA"), "grey")
    ELSE classified_block(signals,
                          ratio_or_none(wma_df_dash.row.btc_price, wma_df_dash.row.wma_200),
                          WMA200_PRICE_RATIO_HIGH, WMA200_PRICE_RATIO_MEDIUM, TRUE)

\* dashboard.py 303-324.
dominance_block(signals, dom_df) ==
    IF dom_df.empty THEN Did(Add(signals, "NA"), "grey")
    ELSE classified_block(signals, dom_df.row.dominance,
                          DOMINANCE_FROTH_HIGH, DOMINANCE_FROTH_MEDIUM, FALSE)

\* dashboard.py 332-364.
s2f_block(signals, s2f_df) ==
    IF s2f_df.empty THEN Did(Add(signals, "NA"), "grey")
    ELSE classified_block(signals,
                          ratio_or_none(s2f_df.row.btc_price, s2f_df.row.s2f_price_model),
                          S2F_PRICE_DEVIATION_HIGH, S2F_PRICE_DEVIATION_MEDIUM, TRUE)

\* dashboard.py 369-390.
puell_block(signals, puell_df_dash) ==
    IF puell_df_dash.empty THEN Did(Add(signals, "NA"), "grey")
    ELSE classified_block(signals, puell_df_dash.row.puell_multiple,
                          PUELL_HIGH_RISK, PUELL_MEDIUM_RISK, TRUE)

\* dashboard.py 150-161: the price block counts NA when there is no bitcoin
\* price and displays no tier.
market_prices_block(signals, btc_price_df) ==
    IF btc_price_df.empty THEN Did(Add(signals, "NA"), "none") ELSE Did(signals, "none")

\* dashboard.py 395-402: one NA for each of the four tickers without data.
RECURSIVE macro_block(_, _)
macro_block(signals, tickers_without_data) ==
    IF tickers_without_data = 0 THEN signals
    ELSE macro_block(Add(signals, "NA"), tickers_without_data - 1)

\* The latest rows the blocks are run on: values below, at and above each
\* threshold, and rows with a NULL.
OneCell(name, values) == {[x \in {name} |-> c] : c \in {NA} \cup {Number(v) : v \in values}}
TwoCells(a, b, pairs) ==
    {[x \in {a, b} |-> IF x = a THEN Number(p[1]) ELSE Number(p[2])] : p \in pairs}
        \cup {[x \in {a, b} |-> IF x = a THEN NA ELSE Number(1)],
              [x \in {a, b} |-> IF x = a THEN Number(1) ELSE NA]}
Tables(rows) == NoData \cup {Latest(r) : r \in rows}

FearGreedTables ==
    Tables(OneCell("value", {FG_GREED - 1, FG_GREED, FG_EXTREME_GREED}))
GoogleTrendsTables ==
    Tables(OneCell("bitcoin_trends", {GTRENDS_MEDIUM_RISK - 1, GTRENDS_MEDIUM_RISK, GTRENDS_HIGH_RISK}))
PiCycleTables ==
    Tables(TwoCells("sma_111", "sma_350_doubled", {<<94, 100>>, <<95, 100>>, <<100, 100>>}))
Wma200Tables ==
    Tables(TwoCells("btc_price", "wma_200", {<<199, 100>>, <<200, 100>>, <<300, 100>>, <<5, 0>>}))
DominanceTables ==
    Tables(OneCell("dominance", {DOMINANCE_FROTH_HIGH, DOMINANCE_FROTH_MEDIUM, DOMINANCE_FROTH_MEDIUM + 1}))
S2FTables ==
    Tables(TwoCells("btc_price", "s2f_price_model", {<<169, 100>>, <<170, 100>>, <<250, 100>>, <<5, 0>>}))
PuellTables ==
    Tables(OneCell("puell_multiple", {PUELL_MEDIUM_RISK - 1, PUELL_MEDIUM_RISK, PUELL_HIGH_RISK}))

NoSignals == [Red |-> 0, Yellow |-> 0, Green |-> 0, NA |-> 0]
NoTiers == [red |-> 0, orange |-> 0, green |-> 0, grey |-> 0]
NoBlock == [name |-> "none", read |-> Empty, color |-> "none", signals_before |-> NoSignals]
NotAssessed == [assessed |-> FALSE, color |-> "none", scored |-> FALSE, points |-> 0, possible |-> 0]
NoChart == [table |-> "none", x |-> <<>>, y |-> <<>>, stored |-> <<>>]

\* One indicator block of the script: it queries its table and, unless the
\* query's error gets out and ends the script, counts and displays.
RunBlock(name, next, tables, effect(_, _)) ==
    /\ block = name
    /\ \E t \in tables :
          LET df == fetch_from_db_dash(t) IN
          IF df.raised
          THEN /\ block' = "crashed"
               /\ last_block' = [name |-> name, read |-> t, color |-> "none",
                                 signals_before |-> overall_risk_signals]
               /\ UNCHANGED <<overall_risk_signals, tiers>>
          ELSE LET did == effect(overall_risk_signals, df) IN
               /\ block' = next
               /\ overall_risk_signals' = did.signals
               /\ tiers' = IF did.color = "none" THEN tiers
                           ELSE [tiers EXCEPT ![did.color] = @ + 1]
               /\ last_block' = [name |-> name, read |-> t, color |-> did.color,
                                 signals_before |-> overall_risk_signals]
    /\ UNCHANGED <<mergeVars, recomputeVars, formulaVars, overall, chart>>

MarketPricesBlock ==
    RunBlock("market_prices", "fear_greed", {Empty, Latest(<<>>)}, market_prices_block)
FearGreedBlock == RunBlock("fear_greed", "google_trends", FearGreedTables, fear_greed_block)
GoogleTrendsBlock == RunBlock("google_trends", "pi_cycle", GoogleTrendsTables, google_trends_block)
PiCycleBlock == RunBlock("pi_cycle", "wma_200", PiCycleTables, pi_cycle_block)
Wma200Block == RunBlock("wma_200", "dominance", Wma200Tables, wma_200_block)
DominanceBlock == RunBlock("dominance", "s2f", DominanceTables, dominance_block)
S2FBlock == RunBlock("s2f", "puell", S2FTables, s2f_block)
PuellBlock == RunBlock("puell", "macro", PuellTables, puell_block)

MacroBlock ==
    /\ block = "macro"
    /\ \E tickers_without_data \in {0, 1, 4} :
          /\ overall_risk_signals' = macro_block(overall_risk_signals, tickers_without_data)
          /\ last_block' = [name |-> "macro", read |-> Empty, color |-> "none",
                            signals_before |-> overall_risk_signals]
    /\ block' = "overall"
    /\ UNCHANGED <<mergeVars, recomputeVars, formulaVars, tiers, overall, chart>>

\* dashboard.py 419-435: overall_color.
overall_color(signals) ==
    IF signals.Red >= OVERALL_HIGH_RISK_COUNT_RED THEN "red"
    ELSE IF \/ signals.Red >= OVERALL_MEDIUM_RISK_COUNT_RED
            \/ signals.Red + signals.Yellow >= OVERALL_MEDIUM_RISK_SUM_YELLOW_RED
         THEN "orange"
    ELSE "green"

\* dashboard.py 409-447: with a conclusive signal, the assessment and
\* risk_percentage = current_risk_points / max_possible_points_from_active;
\* without one, only a sentence that there are not enough signals.
OverallAssessment ==
    /\ block = "overall"
    /\ LET countable_indicators ==
               overall_risk_signals.Green + overall_risk_signals.Yellow + overall_risk_signals.Red
       IN  overall' =
               IF countable_indicators > 0
               THEN [assessed |-> TRUE, color |-> overall_color(overall_risk_signals),
                     scored |-> countable_indicators * 2 > 0,
                     points |-> overall_risk_signals.Red * 2 + overall_risk_signals.Yellow,
                     possible |-> countable_indicators * 2]
               ELSE NotAssessed
    /\ block' = "done"
    /\ UNCHANGED <<mergeVars, recomputeVars, formulaVars, overall_risk_signals, tiers,
                   last_block, chart>>

\* Streamlit runs the script again from the top (dashboard.py 142).
Rerun ==
    /\ block = "done"
    /\ block' = "market_prices"
    /\ overall_risk_signals' = NoSignals
    /\ tiers' = NoTiers
    /\ last_block' = NoBlock
    /\ overall' = NotAssessed
    /\ UNCHANGED <<mergeVars, recomputeVars, formulaVars, chart>>

\* SELECT * FROM <table> ORDER BY timestamp DESC LIMIT n, on a table whose
\* rows are kept oldest first: the n latest rows, the latest first.
order_by_timestamp_desc_limit(rows, n) ==
    LET len == IF Len(rows) < n THEN Len(rows) ELSE n
    IN  SubSeq([i \in 1..len |-> rows[Len(rows) + 1 - i]], 1, len)

\* df[name]: one column of a frame, in the frame's row order.
column(df, name) == SubSeq([i \in 1..Len(df) |-> df[i][name]], 1, Len(df))

\* The smallest and the largest value of series[lo..hi].
RECURSIVE smallest(_, _, _)
smallest(series, lo, hi) ==
    IF lo = hi THEN series[lo]
    ELSE LET mid == (lo + hi) \div 2
             a == smallest(series, lo, mid)
             b == smallest(series, mid + 1, hi)
         IN  IF b < a THEN b ELSE a

RECURSIVE largest(_, _, _)
largest(series, lo, hi) ==
    IF lo = hi THEN series[lo]
    ELSE LET mid == (lo + hi) \div 2
             a == largest(series, lo, mid)
             b == largest(series, mid + 1, hi)
         IN  IF a < b THEN b ELSE a

\* Series.sort_values(): the values in ascending order.  (The 'date' column is
\* the day of the timestamp written as YYYY-MM-DD, whose text order is the
\* order of the days; a table holds each day once.)
sort_values(series) ==
    IF series = <<>> THEN <<>>
    ELSE LET values == {series[i] : i \in 1..Len(series)}
             lo == smallest(series, 1, Len(series))
             hi == largest(series, 1, Len(series))
             held(d) == d \in values
         IN  SelectSeq([k \in 1..(hi - lo + 1) |-> lo + k - 1], held)

\* df.sort_values(by='date'): the rows of the frame in the order of their days.
sort_values_by_date(df) ==
    LET dates == sort_values(column(df, "timestamp"))
    IN  [i \in 1..Len(dates) |-> CHOOSE r \in {df[j] : j \in 1..Len(df)} : r.timestamp = dates[i]]

\* The y columns of the traces of a figure, in the order they are handed over.
traces(df, names) == SubSeq([i \in 1..Len(df) |-> [c \in names |-> df[i][c]]], 1, Len(df))

\* A figure of traces go.Scatter(x=..., y=...): plotly pairs the i-th x with the
\* i-th y of each trace.
DrawChart(T, x, y) ==
    /\ calc_result.wrote
    /\ calc_result.table = T
    /\ chart' = [table |-> T, x |-> x, y |-> y, stored |-> calc_result.rows]
    /\ UNCHANGED <<mergeVars, recomputeVars, formulaVars, block, overall_risk_signals,
                   tiers, last_block, overall>>

\* dashboard.py 246-254.
pi_cycle_chart ==
    LET pi_chart_df == order_by_timestamp_desc_limit(calc_result.rows, 730) IN
    DrawChart("pi_cycle_data", sort_values(column(pi_chart_df, "timestamp")),
              traces(pi_chart_df, {"btc_price", "sma_111", "sma_350_doubled"}))

\* dashboard.py 288-294: ORDER BY timestamp, without a limit.
wma_200_chart ==
    LET wma_chart_df == calc_result.rows IN
    DrawChart("wma_200_data", sort_values(column(wma_chart_df, "timestamp")),
              traces(wma_chart_df, {"btc_price", "wma_200"}))

\* dashboard.py 356-362.
s2f_chart ==
    LET s2f_chart_df == order_by_timestamp_desc_limit(calc_result.rows, 365 * 4) IN
    DrawChart("s2f_data", sort_values(column(s2f_chart_df, "timestamp")),
              traces(s2f_chart_df, {"btc_price", "s2f_price_model"}))

\* dashboard.py 381-386: px.line on the frame sorted by date.
puell_chart ==
    LET puell_chart_df ==
            sort_values_by_date(order_by_timestamp_desc_limit(calc_result.rows, 365 * 2))
    IN  DrawChart("puell_multiple_calculated", column(puell_chart_df, "timestamp"),
                  traces(puell_chart_df, {"puell_multiple"}))

\* The script at its top with the counters of line 142.
InitDashboard ==
    /\ block = "market_prices"
    /\ overall_risk_signals = NoSignals
    /\ tiers = NoTiers
    /\ last_block = NoBlock
    /\ overall = NotAssessed
    /\ chart = NoChart

\* No stored prices, no supply snapshot, nothing calculated or rendered.
InitFormulas ==
    /\ n_points = 0
    /\ p_lo = 1
    /\ p_hi = 1
    /\ step_at = 1
    /\ wiggle = 0
    /\ weekday0 = 0
    /\ supply_info = <<>>
    /\ calc_result = NotWritten("none")
    /\ risk_html = NotRendered

\* After init_db: every table exists and is empty; no merge has run.  (Only the
\* merge into google_trends calls to_datetime, so only there both kinds of pandas
\* are told apart.)
Init ==
    /\ table_name \in RawTables
    /\ pandas_strict \in (IF table_name = "google_trends" THEN BOOLEAN ELSE {TRUE})
    /\ InitMerge
    /\ InitDerived
    /\ InitFormulas
    /\ InitDashboard

vars == <<mergeVars, recomputeVars, formulaVars, dashVars>>

\* The sequential pipeline: one driver, the scheduler, runs the merges.
Next ==
    \/ Call("scheduler")
    \/ CallAgain("scheduler")
    \/ Return("scheduler")
    \/ ReadAndFilter("scheduler")
    \/ InsertRow("scheduler")
    \/ Commit("scheduler")

Spec == Init /\ [][Next]_vars

\* The scheduler process of main.py with a dashboard process reading beside it.
InitRecompute ==
    /\ table_name = "crypto_prices"
    /\ pandas_strict = TRUE
    /\ InitMerge
    /\ InitDerived
    /\ InitFormulas
    /\ InitDashboard

NextRecompute ==
    \/ RunPending
    \/ FetchData
    \/ Calculate
    \/ DropTable
    \/ CreateTable
    \/ InsertRows
    \/ CommitRows
    \/ WriteError
    \/ \E T \in DerivedTables : DashboardRead(T)

SpecRecompute == InitRecompute /\ [][NextRecompute]_vars

\* The stored series the rolling metrics are run on: lengths around both
\* minimums and the lookback, a price level that changes once (or never), with
\* or without a ripple.
RollingLengths == {0, 1, 349, 350, 351, 364, 365, 366, 400, 401}

InitStore(lengths, levels, steps, ripples, weekdays, snapshots) ==
    /\ table_name = "crypto_prices"
    /\ pandas_strict = TRUE
    /\ InitMerge
    /\ InitDerived
    /\ n_points \in lengths
    /\ p_lo \in levels
    /\ p_hi \in levels
    /\ step_at \in steps
    /\ wiggle \in ripples
    /\ weekday0 \in weekdays
    /\ supply_info \in snapshots
    /\ calc_result = NotWritten("none")
    /\ risk_html = NotRendered
    /\ InitDashboard

InitRolling == InitStore(RollingLengths, Prices, {290, 366}, {0, 1}, {0}, {<<>>})

NextRolling ==
    \/ calculate_pi_cycle_top
    \/ calculate_puell_multiple_alternative

SpecRolling == InitRolling /\ [][NextRolling]_vars

\* The 200WMA on stored series around its minimum and its lookback, the first
\* stored day falling on any weekday (weekday0 days after a Monday).
WmaLengths == {1399, 1400, 1401, 1406, 1500, 1501}

InitWma == InitStore(WmaLengths, Prices, {700, 1450}, {0, 1}, 0..6, {<<>>})

NextWma == calculate_200wma

SpecWma == InitWma /\ [][NextWma]_vars

\* Stock-to-Flow on stored series up to its lookback and beyond, with no, one
\* or two supply snapshots, NULL or a number of millions of coins.
S2FLengths == {0, 1, 3, 365 * 5, 365 * 5 + 1}
Snapshots == {NoSupply} \cup {Supply(v) : v \in {0, 19, 20}}
SupplyInfos ==
    {<<>>} \cup {<<a>> : a \in Snapshots} \cup {<<a, b>> : a \in Snapshots, b \in Snapshots}

InitS2F == InitStore(S2FLengths, Prices, {2}, {1}, {0}, SupplyInfos)

NextS2F == calculate_s2f_model

SpecS2F == InitS2F /\ [][NextS2F]_vars

\* The dashboard's classifier on every value and pair of thresholds.
InitClassifier == InitStore({0}, {1}, {1}, {0}, {0}, {<<>>})

NextClassifier == RenderIndicator

SpecClassifier == InitClassifier /\ [][NextClassifier]_vars

\* One run after another of the dashboard script over its indicator blocks.
InitScript ==
    /\ table_name = "crypto_prices"
    /\ pandas_strict = TRUE
    /\ InitMerge
    /\ InitDerived
    /\ InitFormulas
    /\ InitDashboard

NextScript ==
    \/ MarketPricesBlock
    \/ FearGreedBlock
    \/ GoogleTrendsBlock
    \/ PiCycleBlock
    \/ Wma200Block
    \/ DominanceBlock
    \/ S2FBlock
    \/ PuellBlock
    \/ MacroBlock
    \/ OverallAssessment
    \/ Rerun

SpecScript == InitScript /\ [][NextScript]_vars

\* The batches both drivers' fetchers build from the answers of the same API:
\* rows of the column types of the table, each key once in a batch.
FetchedKeys(t) ==
    CASE t = "crypto_prices"    -> {I(1)}
      [] t = "macro_indicators" -> {S("2024-01-01")}
      [] t = "fear_greed_index" -> {I(1), I(2)}
      [] t = "google_trends"    -> {S("2024-01-01"), S("2024-01-02")}

FetchedRows(t) == [k1 : FetchedKeys(t), k2 : K2Vals(t), v : {10}]

FetchedBatches(t) ==
    {[haskeys |-> TRUE, rows |-> s] :
        s \in {q \in SeqUpTo(FetchedRows(t), MaxBatch) :
                  \A i, j \in 1..Len(q) : i # j => q[i] # q[j]}}

\* A fetcher of driver p calls store_data_incrementally with what it fetched.
Fetch(p) ==
    /\ pc[p] = "idle"
    /\ \E batch \in FetchedBatches(table_name) : Begin(p, batch, FALSE)

\* sqlite admits one writing transaction at a time: the first INSERT of a
\* connection waits while another connection's transaction is open.
WriteLockFree(p) == \A q \in Drivers \ {p} : txn[q] = <<>>

\* Line 212 on a database another process writes to as well.
InsertRowLocked(p) == WriteLockFree(p) /\ InsertRow(p)

\* The scheduler process of main.py and the refresh of the dashboard process,
\* each merging into the same raw table over its own connection; the steps of
\* their calls interleave in any order.
InitInterleaved == Init

NextInterleaved ==
    \E p \in Drivers :
        \/ Fetch(p)
        \/ ReadAndFilter(p)
        \/ InsertRowLocked(p)
        \/ Commit(p)
        \/ Return(p)

SpecInterleaved == InitInterleaved /\ [][NextInterleaved]_vars

\* The history charts, each drawn from the table its calculation has written:
\* stored series long enough for each calculation and longer than the longest
\* slice, with a price that changes inside the slices.
ChartLengths == {1, 351, 366, 1401, 365 * 5 + 1}

InitCharts == InitStore(ChartLengths, Prices, {351}, {0, 1}, {0}, {<<Supply(19)>>})

NextCharts ==
    \/ calculate_pi_cycle_top
    \/ calculate_puell_multiple_alternative
    \/ calculate_200wma
    \/ calculate_s2f_model
    \/ pi_cycle_chart
    \/ wma_200_chart
    \/ s2f_chart
    \/ puell_chart

SpecCharts == InitCharts /\ [][NextCharts]_vars

----------------------------------------------------------------------------
\* Properties of the merge

Sch == "scheduler"

\* The call of the scheduler has returned.
Returned == pc[Sch] = "done"

\* Primary key of a stored row, and of a batch row as the table would store it.
KeyOf(e) == <<e.k1, e.k2>>
NewKeyOf(r) == <<Affinity(table_name, r.k1), r.k2>>

\* Rows of the table with a given primary key, counted with multiplicity.
CountKey(bag, k) ==
    BagCardinality([e \in {x \in BagToSet(bag) : KeyOf(x) = k} |-> CopiesIn(e, bag)])

BatchRows(p) == {df_new_data[p].rows[i] : i \in 1..Len(df_new_data[p].rows)}

\* The batch's key cells have the type of the key column: numbers for a
\* timestamp, date texts for a date.
WellTyped(batch) ==
    /\ batch.haskeys
    /\ \A i \in 1..Len(batch.rows) :
          LET c == batch.rows[i].k1 IN
          CASE ColumnType(table_name) \in {"INTEGER", "INTEGER PRIMARY KEY"}
                    -> c.ty \in {"int", "float"}
            [] IsDateKey(table_name) /\ ~IsComposite(table_name)
                    -> IsDateText(c.s) \/ IsDatetimeText(c.s)
            [] OTHER -> TRUE

\* C1: merge idempotence.  When store_data_incrementally has returned from a
\* call that repeats, with nothing in between, the batch of the call before it,
\* the second call reported no stored row and the table is exactly as the first
\* call left it.
C1_MergeIdempotent ==
    (Returned /\ repeat[Sch]) =>
        /\ db = before[Sch]
        /\ result[Sch].log # "stored"
        /\ result[Sch].count = 0

\* A repeated call has returned, on a table that holds exactly the rows the first
\* call inserted from a batch of several rows.
C1_Witness ==
    /\ Returned /\ repeat[Sch]
    /\ Len(df_new_data[Sch].rows) >= 2
    /\ BagCardinality(db) = Len(df_new_data[Sch].rows)
    /\ result[Sch].log = "no_new"

\* C2: merge completeness, as claimed.  After a call with a well-typed batch has
\* returned, every batch row whose key was absent from the table beforehand is
\* stored exactly once (also when the batch repeats a key), and every row that
\* was there beforehand is there once, unaltered.
C2_MergeComplete ==
    (Returned /\ WellTyped(df_new_data[Sch])) =>
        /\ \A r \in BatchRows(Sch) :
              CountKey(before[Sch], NewKeyOf(r)) = 0 => CountKey(db, NewKeyOf(r)) = 1
        /\ \A e \in BagToSet(before[Sch]) :
              CopiesIn(e, db) = 1 /\ CountKey(db, KeyOf(e)) = 1

\* C3: primary-key uniqueness.  In every state, among the committed rows and
\* among the rows a writing connection sees, no two rows carry the same
\* (non-NULL) primary key.
UniqueKeys(bag) ==
    \A e \in BagToSet(bag) : e.k1.ty # "null" => CountKey(bag, KeyOf(e)) = 1

C4_CompositeKeysDistinct ==
    (/\ IsComposite(table_name) /\ df_new_data[Sch].haskeys
     /\ Returned /\ result[Sch].log \in {"no_new", "stored"}) =>
        \A r \in BatchRows(Sch) :
            /\ \A e \in BagToSet(before[Sch]) :
                  NewKeyOf(r) # KeyOf(e) =>
                      temp_composite_pk_col(r) # existing_pks_db_str(e)
            /\ CountKey(before[Sch], NewKeyOf(r)) = 0 =>
                  \E i \in 1..Len(df_to_insert[Sch]) : df_to_insert[Sch][i] = r

\* C5: all-or-nothing.  In every state the committed table is the table as it
\* was when the call started, either with nothing added or with one stored row
\* added for every row of the insert subset; a call that ended in an error
\* added nothing.
C5_AllOrNothing ==
    /\ before[Sch] \sqsubseteq db \/ pc[Sch] = "idle"
    /\ pc[Sch] # "idle" =>
          /\ BagCardinality(db (-) before[Sch]) \in {0, Len(df_to_insert[Sch])}
          /\ result[Sch].log = "error" => db = before[Sch]
          /\ result[Sch].log = "stored" =>
                BagCardinality(db (-) before[Sch]) = Len(df_to_insert[Sch])

\* A write is part-way: some rows of the insert subset are written in the open
\* transaction, others are still to come.
C5_Witness ==
    /\ pc[Sch] = "insert"
    /\ 0 < Len(txn[Sch])
    /\ Len(txn[Sch]) < Len(df_to_insert[Sch])
    /\ InsertFails(table_name, df_to_insert[Sch][Len(txn[Sch]) + 1], Visible(Sch))

\* C6: a malformed batch, as claimed.  When a call with a batch that lacks a key
\* column, or whose key column mixes types, has returned, it has raised a
\* DataIntegrityError to its caller and the table is unchanged.
Malformed(batch) ==
    \/ ~batch.haskeys
    \/ \E i, j \in 1..Len(batch.rows) : batch.rows[i].k1.ty # batch.rows[j].k1.ty

C6_MalformedRaises ==
    (Returned /\ Malformed(df_new_data[Sch])) =>
        /\ result[Sch].raised = "DataIntegrityError"
        /\ db = before[Sch]

\* C7: merge never modifies or removes a row.  Every step leaves each stored
\* row in the table, as many times as it was there.
C7_ExistingRowsKept == [][db \sqsubseteq db']_vars

\* A call that found existing rows, one of them with the key of a batch row but
\* another value, has stored new rows.
C7_Witness ==
    /\ Returned
    /\ result[Sch].log = "stored"
    /\ \E e \in BagToSet(before[Sch]) : \E r \in BatchRows(Sch) :
          NewKeyOf(r) = KeyOf(e) /\ r.v # e.v /\ CopiesIn(e, db) = 1

\* C8: the returned count, as claimed.  When a call has returned, its return
\* value is the number of rows it added to the table.
C8_ReturnsCount ==
    Returned =>
        /\ ~result[Sch].returned.isNone
        /\ result[Sch].returned.n = BagCardinality(db) - BagCardinality(before[Sch])

----------------------------------------------------------------------------
\* Properties of the derived tables

\* C9: a dashboard query made while a derived table is being recomputed returns
\* either the table's complete previous contents or its complete new contents,
\* never a missing or an empty table.
C9_ReaderSeesOldOrNew ==
    seen \in {"nothing", "complete", "previous", "new"}

\* C10: when a recompute has raised while writing its rows, the derived table
\* holds what it held before the recompute, and the scheduler is back in its
\* loop waiting for the next run.
C10_FailedRecomputeKeepsTable ==
    failed # "none" => /\ phase = "wait"
                       /\ derived[failed] = prev

\* C11: failure isolation, as claimed.  When a calculation of a run has raised,
\* the run has still called every other calculation by the time it ends.
C11_FailureIsolation ==
    (phase = "wait" /\ failed # "none") => not_run = {}

\* The minimum input of a calculation is unmet: fewer than 350 points for Pi
\* Cycle, fewer than 365 for Puell, fewer than 1400 daily or 200 weekly points
\* for the 200WMA, no price or no supply snapshot for S2F.
MinimumUnmet(T, len, snapshots) ==
    \/ T = "pi_cycle_data" /\ len < 350
    \/ T = "puell_multiple_calculated" /\ len < 365
    \/ T = "wma_200_data" /\ (len < 1400 \/ (len + 6) \div 7 < 200)
    \/ T = "s2f_data" /\ (len = 0 \/ snapshots = 0)

\* C12: insufficient input is a soft skip.  A calculation that reads less than
\* its minimum input writes nothing, raises nothing and leaves every derived
\* table as it was; the run goes on with the next calculation or ends normally.
C12_SoftSkip ==
    [][(phase = "calc" /\ MinimumUnmet(Current, read_n', supply)) =>
          /\ derived' = derived
          /\ pending' = pending
          /\ failed' = failed
          /\ phase' \in {"calc", "wait"}]_vars

\* The Pi Cycle calculation has just returned without writing, because its read
\* of the prices failed, and pi_cycle_data still holds the rows of an earlier run.
C12_Witness ==
    /\ phase = "calc" /\ calc = 2
    /\ read_n = 0 /\ raw_n >= 350
    /\ derived["pi_cycle_data"].exists
    /\ derived["pi_cycle_data"].rows # NoRows

\* C13: derived tables are replaced, not merged.  The step that completes a
\* recompute leaves the table with exactly the rows rebuilt from the raw data as
\* it is, whatever the table held before.
C13_ReplacedNotMerged ==
    [][(phase = "commit" /\ phase' # "commit" /\ failed' = "none") =>
          derived'[Current] = [exists |-> TRUE, rows |-> Rebuilt(Current, raw_n, supply)]]_vars

\* The S2F recompute has just completed on a table that held the rows of an
\* earlier run, built from an older supply snapshot.
C13_Witness ==
    /\ phase = "calc" /\ calc = 4 /\ failed = "none"
    /\ prev.rows # NoRows
    /\ prev.rows.supply # built.supply
    /\ derived["s2f_data"] = [exists |-> TRUE, rows |-> built]

\* C14: recompute is idempotent given unchanged raw data.  When a clean run
\* follows a clean run and its fetchers stored nothing new, every derived table
\* holds after it what it held before it.
C14_RecomputeIdempotent ==
    (phase = "wait" /\ CleanRun /\ prev_clean /\ ~raw_changed) => ~changed

\* Such a second run has ended, having rebuilt Pi Cycle and S2F.
C14_Witness ==
    /\ phase = "wait" /\ CleanRun /\ prev_clean /\ ~raw_changed
    /\ derived["pi_cycle_data"].rows # NoRows
    /\ derived["s2f_data"].rows # NoRows

----------------------------------------------------------------------------
\* Properties of the rolling metrics

\* x[lo] + ... + x[hi], summed term by term.
RECURSIVE Sum(_, _, _)
Sum(x, lo, hi) ==
    IF lo > hi THEN 0
    ELSE IF lo = hi THEN x[lo]
    ELSE LET mid == (lo + hi) \div 2 IN Sum(x, lo, mid) + Sum(x, mid + 1, hi)

AtLeastZero(k) == IF k < 0 THEN 0 ELSE k

\* The window of a rolling metric's table, the raw values it averages, and the
\* average a stored row carries (as a sum over the window length).
WindowOf(T) == IF T = "pi_cycle_data" THEN 350 ELSE 365
RawValues(T, df) ==
    IF T = "pi_cycle_data" THEN [i \in 1..Len(df) |-> 2 * df[i].close]
    ELSE [i \in 1..Len(df) |-> daily_issuance_btc * df[i].close]
AverageOf(T, r) ==
    IF T = "pi_cycle_data" THEN r.sma_350_doubled ELSE r.daily_issuance_usd_365d_ma
RollingTables == {"pi_cycle_data", "puell_multiple_calculated"}

\* Position in the frame read of the day a stored row is for.
PositionOf(df, r) == r.timestamp - df[1].timestamp + 1

\* The full windows of a Puell frame whose average is zero.
ZeroWindows(T, df) ==
    IF T = "pi_cycle_data" THEN {}
    ELSE {i \in WindowOf(T)..Len(df) : Sum(RawValues(T, df), i - WindowOf(T) + 1, i) = 0}

\* C15 as stated: a rolling metric that read L points leaves exactly
\* max(0, L-W+1) rows, the first of them carrying the mean of the first W raw
\* values, and none from a partial window or with a null average.
C15_ExactRowCount ==
    calc_result.table \in RollingTables =>
        LET T == calc_result.table
            df == btc_df(400)
            W == WindowOf(T)
            rows == calc_result.rows
        IN  /\ Len(rows) = AtLeastZero(Len(df) - W + 1)
            /\ rows # <<>> =>
                   AverageOf(T, rows[1]) = [num |-> Sum(RawValues(T, df), 1, W), den |-> W]
            /\ \A k \in 1..Len(rows) :
                   /\ PositionOf(df, rows[k]) >= W
                   /\ ~isna(AverageOf(T, rows[k]))

\* C15, amended: a rolling metric that read L points leaves one row for each
\* of the max(0, L-W+1) full windows, except the Puell windows whose average
\* is zero; every row carries the mean of the W raw values ending at it (so the
\* first row carries the mean of the first W when that mean is not a zero Puell
\* average); no row comes from a partial window or has a null average.
C15_WindowCompleteness ==
    calc_result.table \in RollingTables =>
        LET T == calc_result.table
            df == btc_df(400)
            W == WindowOf(T)
            rows == calc_result.rows
            Z == ZeroWindows(T, df)
        IN  /\ Len(rows) = AtLeastZero(Len(df) - W + 1) - Cardinality(Z)
            /\ (rows # <<>> /\ W \notin Z) =>
                   /\ PositionOf(df, rows[1]) = W
                   /\ AverageOf(T, rows[1]) = [num |-> Sum(RawValues(T, df), 1, W), den |-> W]
            /\ \A k \in 1..Len(rows) :
                   LET i == PositionOf(df, rows[k]) IN
                   /\ i >= W
                   /\ i \notin Z
                   /\ ~isna(AverageOf(T, rows[k]))
                   /\ AverageOf(T, rows[k]) =
                          [num |-> Sum(RawValues(T, df), i - W + 1, i), den |-> W]

\* Both metrics have stored a row for every full window of a frame longer than
\* the window.
C15_Witness ==
    /\ calc_result.table \in RollingTables
    /\ calc_result.wrote
    /\ Len(btc_df(400)) > WindowOf(calc_result.table)
    /\ Len(calc_result.rows) = Len(btc_df(400)) - WindowOf(calc_result.table) + 1

\* C16: every stored pi_cycle_data row has signal "High Risk (CROSSED)" when
\* its sma_111 is at least its sma_350_doubled and "Neutral" otherwise (so the
\* signal flips where sma_111 reaches sma_350_doubled and stays while it is at
\* or above it).
C16_PiCycleSignal ==
    calc_result.table = "pi_cycle_data" =>
        \A k \in 1..Len(calc_result.rows) :
            LET r == calc_result.rows[k] IN
            r.signal = IF Geq(r.sma_111, r.sma_350_doubled) THEN "High Risk (CROSSED)"
                       ELSE "Neutral"

\* C18: every stored puell_multiple_calculated row has daily_issuance_usd =
\* daily issuance (block reward times blocks per day) times its price and
\* puell_multiple = daily_issuance_usd divided by the trailing 365-point mean of
\* daily_issuance_usd; a point whose 365-point average is undefined or zero
\* has no stored row, and the calculation ends without error.
C18_PuellMultiple ==
    calc_result.table = "puell_multiple_calculated" =>
        LET df == btc_df(400)
            usd == RawValues("puell_multiple_calculated", df)
            rows == calc_result.rows
            stored == {PositionOf(df, rows[k]) : k \in 1..Len(rows)}
        IN  /\ \A k \in 1..Len(rows) :
                   LET r == rows[k]
                       i == PositionOf(df, r)
                       total == Sum(usd, i - 364, i)
                   IN  /\ r.btc_price = df[i].close
                       /\ r.daily_issuance_usd = daily_issuance_btc * r.btc_price
                       /\ r.daily_issuance_usd_365d_ma = [num |-> total, den |-> 365]
                       /\ total # 0
                       /\ r.puell_multiple = [num |-> r.daily_issuance_usd * 365, den |-> total]
            /\ \A i \in 1..Len(df) :
                   (i < 365 \/ Sum(usd, i - 364, i) = 0) => i \notin stored
            /\ calc_result.wrote = (rows # <<>>)

\* Puell has stored rows for a frame with a full window whose average is zero.
C18_Witness ==
    /\ calc_result.table = "puell_multiple_calculated"
    /\ calc_result.wrote
    /\ ZeroWindows("puell_multiple_calculated", btc_df(400)) # {}

----------------------------------------------------------------------------
\* Properties of the 200-week moving average

\* Monday is weekday 0 and Sunday weekday 6; day 1 is weekday0.
IsSunday(d) == (weekday0 + d - 1) % 7 = 6

\* The days from first to last inside the week that ends on Sunday s.
ObservedInWeek(first, last, s) == {d \in (s - 6)..s : first <= d /\ d <= last}

LastOf(days) == CHOOSE d \in days : \A e \in days : e <= d

\* C17: every stored wma_200_data row is for one Sunday-ending week, its
\* btc_price is the last price observed inside that week, its wma_200 is the
\* mean of that week's price and the 199 preceding weekly prices, and no row
\* is stored for a week without all 200 weekly values.
C17_WeeklyMovingAverage ==
    calc_result.table = "wma_200_data" =>
        LET df == btc_df(1500)
            first == df[1].timestamp
            last == n_points
            rows == calc_result.rows
            weekly(s) == Price(LastOf(ObservedInWeek(first, last, s)))
        IN  /\ calc_result.wrote = (rows # <<>>)
            /\ \A k \in 1..Len(rows) :
                   LET r == rows[k]
                       s == r.timestamp
                   IN  /\ IsSunday(s)
                       /\ k > 1 => s = rows[k - 1].timestamp + 7
                       /\ \A j \in 0..199 : ObservedInWeek(first, last, s - 7 * j) # {}
                       /\ r.btc_price = weekly(s)
                       /\ r.wma_200 =
                              [num |-> Sum([j \in 1..200 |-> weekly(s - 7 * (200 - j))], 1, 200),
                               den |-> 200]

\* The 200WMA has stored several weekly rows, the last for a week that is
\* still running (the last stored day is not a Sunday).
C17_Witness ==
    /\ calc_result.table = "wma_200_data"
    /\ calc_result.wrote
    /\ Len(calc_result.rows) >= 2
    /\ ~IsSunday(n_points)
    /\ p_lo # p_hi

----------------------------------------------------------------------------
\* Properties of Stock-to-Flow

\* C19: after a successful S2F recompute s2f_data holds exactly one row per
\* raw bitcoin price point of the lookback window, only timestamp and btc_price
\* differ between rows, and every row carries the s2f_ratio and the
\* s2f_price_model of the single most recent circulating-supply snapshot; one
\* price row and one snapshot are enough for the recompute to succeed.
C19_SharedConstants ==
    calc_result.table = "s2f_data" =>
        LET df == btc_df(365 * 5)
            len == get_btc_price_data_from_db(n_points, 365 * 5)
            rows == calc_result.rows
            have_supply == supply_info # <<>> /\ ~supply_info[Len(supply_info)].null
        IN  /\ calc_result.wrote = (len >= 1 /\ have_supply)
            /\ calc_result.wrote =>
                   LET snapshot == supply_info[Len(supply_info)].v IN
                   /\ Len(rows) = len
                   /\ \A i \in 1..len :
                          /\ rows[i].timestamp = n_points - len + i
                          /\ rows[i].btc_price = Price(n_points - len + i)
                          /\ rows[i].s2f_ratio = rows[1].s2f_ratio
                          /\ rows[i].s2f_price_model = rows[1].s2f_price_model
                   /\ rows[1].s2f_ratio.den # 0
                   /\ rows[1].s2f_ratio.num * 328725 = 2 * snapshot * rows[1].s2f_ratio.den
                   /\ rows[1].s2f_price_model.supply = snapshot
                   /\ (rows[1].s2f_price_model.formula = "0") = (snapshot <= 0)

\* S2F has stored rows with different prices from the later of two different
\* snapshots.
C19_Witness ==
    /\ calc_result.table = "s2f_data"
    /\ calc_result.wrote
    /\ Len(calc_result.rows) >= 2
    /\ calc_result.rows[1].btc_price # calc_result.rows[2].btc_price
    /\ Len(supply_info) = 2
    /\ ~supply_info[1].null
    /\ supply_info[1].v # supply_info[2].v

----------------------------------------------------------------------------
\* Properties of the classifier

\* The tier the rule of higher-is-riskier mode gives a number.
TierOf(v, high, medium) ==
    IF v >= high THEN "High" ELSE IF v >= medium THEN "Medium" ELSE "Low"

\* A rendering in higher-is-riskier mode of a number against two numbers.
NumericRendering ==
    /\ risk_html.rendered
    /\ risk_html.low_is_good
    /\ risk_html.value.kind = "number"
    /\ ~risk_html.high_threshold.none
    /\ ~risk_html.medium_threshold.none

\* C20 as stated: with low_is_good true, for every numeric value and
\* thresholds the tier is High when value >= high_threshold, else Medium when
\* value >= medium_threshold, else Low; a value equal to high_threshold is
\* High and a value one unit below medium_threshold is Low.
C20_HigherIsRiskier ==
    NumericRendering =>
        LET v == risk_html.value.v
            high == risk_html.high_threshold.v
            medium == risk_html.medium_threshold.v
        IN  /\ risk_html.html.risk_level = TierOf(v, high, medium)
            /\ v = high => risk_html.html.risk_level = "High"
            /\ v = medium - 1 => risk_html.html.risk_level = "Low"

\* C20, amended: with low_is_good true, for every numeric value and
\* thresholds the tier is High when value >= high_threshold, else Medium when
\* value >= medium_threshold, else Low; a value equal to high_threshold is
\* High, and a value one unit below medium_threshold is Low when it is below
\* high_threshold too (as with every configured pair, where medium < high) and
\* High otherwise.
C20_HigherIsRiskierOrdered ==
    NumericRendering =>
        LET v == risk_html.value.v
            high == risk_html.high_threshold.v
            medium == risk_html.medium_threshold.v
            html == risk_html.html
        IN  /\ html.risk_level = TierOf(v, high, medium)
            /\ html.color = (IF html.risk_level = "High" THEN "red"
                             ELSE IF html.risk_level = "Medium" THEN "orange" ELSE "green")
            /\ v = high => html.risk_level = "High"
            /\ v = medium - 1 =>
                   html.risk_level = (IF medium - 1 < high THEN "Low" ELSE "High")

\* A value equal to the high threshold, above the medium one, was classified.
C20_Witness ==
    /\ NumericRendering
    /\ risk_html.value.v = risk_html.high_threshold.v
    /\ risk_html.medium_threshold.v < risk_html.high_threshold.v
    /\ risk_html.html.risk_level = "High"

\* The tier a returned span shows: its colour.
TierOfHtml(html) ==
    IF html.raised # "none" THEN "none"
    ELSE IF html.color = "red" THEN "High"
    ELSE IF html.color = "orange" THEN "Medium"
    ELSE IF html.color = "green" THEN "Low"
    ELSE "Unavailable"

C22_ClassifierTotal ==
    risk_html.rendered =>
        /\ risk_html.html.raised = "none"
        /\ TierOfHtml(risk_html.html) \in {"Low", "Medium", "High", "Unavailable"}
        /\ risk_html.value.kind # "number" => TierOfHtml(risk_html.html) = "Unavailable"

----------------------------------------------------------------------------
\* Properties of the dashboard script

\* The seven risk indicators.
Indicators == {"fear_greed", "google_trends", "pi_cycle", "wma_200", "dominance", "s2f", "puell"}

\* The verdict of the aggregator's rule for given counts of High and Medium.
VerdictOf(high, medium) ==
    IF high >= OVERALL_HIGH_RISK_COUNT_RED THEN "red"
    ELSE IF high >= OVERALL_MEDIUM_RISK_COUNT_RED \/ high + medium >= OVERALL_MEDIUM_RISK_SUM_YELLOW_RED
         THEN "orange"
    ELSE "green"

\* C23: after the blocks of one snapshot, the overall verdict is High when
\* count(High) >= OVERALL_HIGH_RISK_COUNT_RED, otherwise Medium when
\* count(High) >= OVERALL_MEDIUM_RISK_COUNT_RED or count(High) + count(Medium)
\* >= OVERALL_MEDIUM_RISK_SUM_YELLOW_RED, otherwise Low.
C23_VerdictRule ==
    block = "done" => overall.color = VerdictOf(tiers.red, tiers.orange)

\* C24: for all counts, those with no conclusive indicator included, the
\* aggregator gives a defined overall tier and a risk score from 0 to 1.
C24_AggregatorTotal ==
    block = "done" =>
        /\ overall.assessed
        /\ overall.color \in {"red", "orange", "green"}
        /\ overall.scored
        /\ 0 <= overall.points
        /\ overall.points <= overall.possible

\* C25: the risk score is (2 * count(High) + count(Medium)) / (2 * (count(High)
\* + count(Medium) + count(Low))) for the snapshot's tier counts, and 0 when
\* that denominator is 0.
C25_RiskScore ==
    block = "done" =>
        LET conclusive == tiers.red + tiers.orange + tiers.green IN
        /\ overall.scored
        /\ IF conclusive = 0 THEN overall.points = 0
           ELSE overall.points * (2 * conclusive) =
                    (2 * tiers.red + tiers.orange) * overall.possible

\* What a block read holds no value: no table, no readable database, no row,
\* or a latest row with a NULL.
NothingToClassify(read) ==
    \/ read \in NoData
    \/ \E x \in DOMAIN read.row : read.row[x].na

C27_OneTierPerIndicator ==
    /\ overall_risk_signals.Red + overall_risk_signals.Yellow + overall_risk_signals.Green
           <= Cardinality(Indicators)
    /\ last_block.name \in Indicators =>
           overall_risk_signals =
               Add(last_block.signals_before,
                   IF last_block.color = "red" THEN "Red"
                   ELSE IF last_block.color = "orange" THEN "Yellow"
                   ELSE IF last_block.color = "green" THEN "Green" ELSE "NA")

----------------------------------------------------------------------------
\* Properties of the history charts

\* The number of latest rows a chart's query asks for (none for the 200WMA).
SliceBound(T) ==
    IF T = "s2f_data" THEN 365 * 4
    ELSE IF T = "wma_200_data" THEN Len(chart.stored)
    ELSE 730

\* A chart shows the latest rows of its table, as many as its query asks for.
LatestRowsCharted ==
    chart.table # "none" =>
        LET n == Len(chart.stored)
            k == IF n < SliceBound(chart.table) THEN n ELSE SliceBound(chart.table)
        IN  /\ Len(chart.x) = k
            /\ Len(chart.y) = k
            /\ \A i \in 1..k : chart.x[i] = chart.stored[n - k + i].timestamp

\* C29: every history slice is in ascending order of time, holds at most the
\* configured number of latest rows, and pairs its i-th time point with the
\* price and the indicator values of the stored row of that time.
C29_HistorySlices ==
    chart.table # "none" =>
        /\ LatestRowsCharted
        /\ \A i \in 1..(Len(chart.x) - 1) : chart.x[i] < chart.x[i + 1]
        /\ \A i \in 1..Len(chart.x) :
              LET r == chart.stored[Len(chart.stored) - Len(chart.x) + i]
              IN  \A c \in DOMAIN chart.y[i] : chart.y[i][c] = r[c]

----------------------------------------------------------------------------
\* Properties of the key comparison and of interleaved merges

\* The value a key cell stands for, whatever its representation: the number of
\* an integer or a float, the day of a date written with or without a time.
KeyValue(c) ==
    IF c.ty \in {"int", "float"} THEN I(c.n)
    ELSE IF c.ty = "str" /\ (IsDateText(c.s) \/ IsDatetimeText(c.s)) THEN S(SubSeq(c.s, 1, 10))
    ELSE c

SameKey(r, e) == KeyValue(r.k1) = KeyValue(e.k1) /\ KeyValue(r.k2) = KeyValue(e.k2)

\* C28: a new row whose key equals a stored key in another representation (a
\* float for an integer timestamp, a datetime for a date) is recognised as
\* present: the comparison keeps no such row for insertion, in tables with a
\* single key column and with a composite key alike.
C28_TypeDriftRecognised ==
    \A p \in Drivers :
        pc[p] = "insert" =>
            \A i \in 1..Len(df_to_insert[p]) :
                \A e \in BagToSet(before[p]) : ~SameKey(df_to_insert[p][i], e)

\* Both drivers' calls have returned, and nothing was committed between the
\* start of the one and the start of the other.
BothReturned ==
    /\ \A p \in Drivers : pc[p] = "done"
    /\ before["scheduler"] = before["dashboard"]

\* C30: interleaved merges of the two drivers are safe and lose nothing.  The
\* table never holds a primary key twice, and once both calls have returned
\* every row of either batch whose key was absent beforehand is stored exactly
\* once.
C30_InterleavedMergesLoseNothing ==
    /\ UniqueKeys(db)
    /\ BothReturned =>
          \A p \in Drivers : \A r \in BatchRows(p) :
              CountKey(before[p], NewKeyOf(r)) = 0 => CountKey(db, NewKeyOf(r)) = 1

====
